---- MODULE Spec2Model ----
(***************************************************************************)
(* A model of the Attentive node: the dispatcher (Attentive.execute), the *)
(* ten resource modules, the transport layer (attentiveApiRequest,        *)
(* attentiveApiRequestAllItems, handleApiError) and the utilities they    *)
(* share.                                                                  *)
(*                                                                         *)
(* JSON values are single-field records, the field naming the JavaScript  *)
(* type: [str |-> "a"], [num |-> 1], [bool |-> TRUE], [null |-> TRUE],    *)
(* [undef |-> TRUE], [arr |-> <<...>>], [obj |-> f] with f a function from *)
(* keys to JSON values.  A JavaScript object handed around as IDataObject *)
(* is the function f itself.  Phone numbers, which the code inspects      *)
(* character by character, are sequences of one-character strings.        *)
(***************************************************************************)
EXTENDS Integers, Sequences, FiniteSets, TLC

VARIABLES
    items,          \* this.getInputData(): the item parameters the host supplies
    resource,       \* getNodeParameter('resource', 0)
    operation,      \* getNodeParameter('operation', 0)
    continueOnFail, \* this.continueOnFail()
    credentials,    \* getCredentials('attentiveApi')
    server,         \* the upstream API's behaviour
    pc,             \* position of execute: "loop", "await", "done", "thrown"
    i,              \* loop index of execute (0-based, as in the code)
    returnData,     \* returnData of execute
    thrown,         \* the error execute threw (a sequence of at most one error)
    call,           \* the suspended resource-module call awaiting a response
    inflight,       \* HTTP requests issued and not yet answered
    httpLog,        \* every HTTP request issued, in order
    outcomes,       \* per request of httpLog: "pending", "ok" or "failed"
    executed,       \* per item: how often its resource module was invoked
    settled,        \* per item: "no", "results" or "error"
    raised,         \* every error that reached the catch block of execute, with its item
    utilCall,       \* a utility function called on its own: its name and argument
    utilResult,     \* what that call did: <<>> before, then what it returned or threw
    delivery,       \* an inbound webhook delivery and the trigger's parameters
    reply,          \* what the trigger's webhook handler returned for it: <<>> before
    licensingNoticeLogged, \* the module-level flag of utils/index.ts
    banners,        \* how often the licensing notice was written to the console
    webhookData,    \* the trigger's getWorkflowStaticData('node')
    hook            \* the last webhookMethods call: its name, requests and outcome

\* the variables of a call of a utility and of the trigger's webhook handler
utilVars == <<utilCall, utilResult>>
triggerVars == <<delivery, reply, licensingNoticeLogged, banners, webhookData, hook>>

vars == <<items, resource, operation, continueOnFail, credentials, server, pc, i,
          returnData, thrown, call, inflight, httpLog, outcomes, executed, settled,
          raised, utilCall, utilResult, delivery, reply, licensingNoticeLogged,
          banners, webhookData, hook>>

----------------------------------------------------------------------------
(* Bounds of the model *)

MaxItems == 3
MaxPhoneLen == 3
MaxEntries == 2
MaxTotal == 250

----------------------------------------------------------------------------
(* JSON values *)

JStr(s) == [str |-> s]
JNum(n) == [num |-> n]
JBool(b) == [bool |-> b]
JNull == [null |-> TRUE]
JUndef == [undef |-> TRUE]
JArr(s) == [arr |-> s]
JObj(f) == [obj |-> f]
IsStr(v) == "str" \in DOMAIN v
IsNum(v) == "num" \in DOMAIN v
IsBool(v) == "bool" \in DOMAIN v
IsNull(v) == "null" \in DOMAIN v
IsUndef(v) == "undef" \in DOMAIN v
IsArr(v) == "arr" \in DOMAIN v
IsObj(v) == "obj" \in DOMAIN v
EmptyObj == <<>>
Keys(obj) == DOMAIN obj

\* JavaScript truthiness of a JSON value (if (x), x || y, !x)
Truthy(v) ==
    /\ ~IsUndef(v)
    /\ ~IsNull(v)
    /\ (IsStr(v) => v.str # "")
    /\ (IsNum(v) => v.num # 0)
    /\ (IsBool(v) => v.bool)

\* { ...obj, [k]: v }
Put(obj, k, v) == (k :> v) @@ obj

----------------------------------------------------------------------------
(* Phone numbers *)

Digits == {"0", "1", "2", "3", "4", "5", "6", "7", "8", "9"}

\* the characters of a phone number as one string
RECURSIVE Str(_)
Str(s) == IF s = <<>> THEN "" ELSE Head(s) \o Str(Tail(s))

IsPhoneChar(c) == c \in Digits \cup {"+"}

\* a formatter that strips but never adds the prefix
formatPhoneNumber_noPrefix(phone) ==
    IF phone = <<>> THEN phone
    ELSE SelectSeq(phone, IsPhoneChar)

formatPhoneNumber(phone) ==
    IF phone = <<>> THEN phone
    ELSE LET digits == SelectSeq(phone, IsPhoneChar)
         IN  IF digits # <<>> /\ digits[1] = "+" THEN digits
             ELSE <<"+">> \o digits

isValidE164(phone) ==
    /\ Len(phone) >= 3
    /\ Len(phone) <= 16
    /\ phone[1] = "+"
    /\ phone[2] \in Digits \ {"0"}
    /\ \A k \in 3..Len(phone) : phone[k] \in Digits

\* the error validatePhoneNumber throws for `phone`, or <<>> when it returns
validatePhoneNumber(phone) ==
    IF ~isValidE164(formatPhoneNumber(phone))
    THEN <<[name |-> "NodeOperationError",
            message |-> "Invalid phone number format: \"" \o Str(phone)
                        \o "\". Phone numbers must be in E.164 format (e.g., +19148440001)."]>>
    ELSE <<>>

----------------------------------------------------------------------------
(* cleanObject *)

\* a cleaner that leaves nested objects as they are
cleanObject_shallow(obj) ==
    LET kept(k) ==
            LET value == obj[k]
            IN  /\ ~IsUndef(value) /\ ~IsNull(value) /\ value # JStr("")
                /\ (IsObj(value) => Keys(value.obj) # {})
                /\ (IsArr(value) => Len(value.arr) > 0)
    IN  [k \in {k \in Keys(obj) : kept(k)} |-> obj[k]]

RECURSIVE cleanObject(_)
cleanObject(obj) ==
    LET kept(k) ==
            LET value == obj[k]
            IN  /\ ~IsUndef(value) /\ ~IsNull(value) /\ value # JStr("")
                /\ (IsObj(value) => Keys(cleanObject(value.obj)) # {})
                /\ (IsArr(value) => Len(value.arr) > 0)
    IN  [k \in {k \in Keys(obj) : kept(k)} |->
            IF IsObj(obj[k]) THEN JObj(cleanObject(obj[k].obj)) ELSE obj[k]]

Get(obj, k) == IF k \in Keys(obj) THEN obj[k] ELSE JUndef

\* if (cond) obj[k] = v
PutIf(cond, obj, k, v) == (IF cond THEN (k :> v) ELSE <<>>) @@ obj

\* if (src[k]) dst[k] = src[k], for each k of ks
CopyTruthy(dst, src, ks) == [k \in {k \in ks : Truthy(Get(src, k))} |-> src[k]] @@ dst

\* if (src[k] !== undefined) dst[k] = src[k], for each k of ks
CopyDefined(dst, src, ks) == [k \in {k \in ks : ~IsUndef(Get(src, k))} |-> src[k]] @@ dst

----------------------------------------------------------------------------
(* parseCustomAttributes, parseProductItems, getTimestamp, buildReturnData *)

\* a loop in which the first pair with a key wins
RECURSIVE attributesOf_firstWins(_, _)
attributesOf_firstWins(pairs, n) ==
    IF n = 0 THEN EmptyObj
    ELSE LET item == pairs[n].obj
             rest == attributesOf_firstWins(pairs, n - 1)
         IN  IF Truthy(Get(item, "key")) /\ ~IsUndef(Get(item, "value"))
             THEN rest @@ (item["key"].str :> item["value"])
             ELSE rest

\* the for-loop of parseCustomAttributes over the first n pairs
RECURSIVE attributesOf(_, _)
attributesOf(pairs, n) ==
    IF n = 0 THEN EmptyObj
    ELSE LET item == pairs[n].obj
             rest == attributesOf(pairs, n - 1)
         IN  IF Truthy(Get(item, "key")) /\ ~IsUndef(Get(item, "value"))
             THEN Put(rest, item["key"].str, item["value"])
             ELSE rest

parseCustomAttributes(attributesInput) ==
    IF ~Truthy(attributesInput) THEN EmptyObj
    ELSE LET list == Get(attributesInput.obj, "attributes")
         IN  IF IsArr(list) THEN attributesOf(list.arr, Len(list.arr)) ELSE EmptyObj

DigitValue(c) == CHOOSE n \in 0..9 : <<"0", "1", "2", "3", "4", "5", "6", "7", "8", "9">>[n + 1] = c

\* the longest prefix of s made of digits
RECURSIVE DigitPrefix(_)
DigitPrefix(s) ==
    IF s = <<>> \/ Head(s) \notin Digits THEN <<>>
    ELSE <<Head(s)>> \o DigitPrefix(Tail(s))

RECURSIVE Decimal(_)
Decimal(ds) == IF ds = <<>> THEN 0 ELSE 10 * Decimal(SubSeq(ds, 1, Len(ds) - 1)) + DigitValue(ds[Len(ds)])

RECURSIVE SkipSpaces(_)
SkipSpaces(s) == IF s # <<>> /\ Head(s) = " " THEN SkipSpaces(Tail(s)) ELSE s

NaN == [nan |-> TRUE]
IsNaN(v) == "nan" \in DOMAIN v

\* parseInt(s, 10) of a string given by its characters
ParseInt(s) ==
    LET t == SkipSpaces(s)
        signed == t # <<>> /\ Head(t) \in {"+", "-"}
        ds == DigitPrefix(IF signed THEN Tail(t) ELSE t)
    IN  IF ds = <<>> THEN NaN
        ELSE JNum(IF signed /\ Head(t) = "-" THEN 0 - Decimal(ds) ELSE Decimal(ds))

\* parseFloat(s) of an unsigned decimal: [num |-> integer part, frac |-> digits after the point]
ParseFloat(s) ==
    LET t == SkipSpaces(s)
        ip == DigitPrefix(t)
        rest == SubSeq(t, Len(ip) + 1, Len(t))
        fp == IF rest # <<>> /\ Head(rest) = "." THEN DigitPrefix(Tail(rest)) ELSE <<>>
    IN  IF ip = <<>> /\ fp = <<>> THEN NaN
        ELSE [num |-> Decimal(ip), frac |-> fp]

\* x || d for a parsed number: NaN and 0 are falsy
OrDefault(v, d) ==
    IF IsNaN(v) THEN d
    ELSE IF v.num = 0 /\ ("frac" \notin DOMAIN v \/ \A k \in 1..Len(v.frac) : v.frac[k] = "0") THEN d
    ELSE v

\* one productItem of parseProductItems; price and quantity of the raw item are
\* given by their characters
productItemOf(item) ==
    LET base == [productId |-> Get(item, "productId"),
                 name |-> Get(item, "name"),
                 price |-> JObj([value |-> OrDefault(ParseFloat(item["price"]), JNum(0)),
                                 currency |-> IF Truthy(Get(item, "currency"))
                                              THEN item["currency"] ELSE JStr("USD")]),
                 quantity |-> OrDefault(ParseInt(item["quantity"]), JNum(1))]
        opt == CopyTruthy(base, item, {"productVariantId", "productImage", "productUrl"})
    IN  PutIf(Truthy(Get(item, "category")), opt, "category",
              IF IsArr(Get(item, "category")) THEN Get(item, "category")
              ELSE JArr(<<Get(item, "category")>>))

parseProductItems(itemsInput) ==
    IF ~Truthy(itemsInput) THEN <<>>
    ELSE LET productItems == Get(itemsInput.obj, "items")
         IN  IF IsArr(productItems)
             THEN [k \in 1..Len(productItems.arr) |-> JObj(productItemOf(productItems.arr[k].obj))]
             ELSE <<>>

\* new Date(s).toISOString() on the date strings of the model: the ISO form of a
\* string Date can parse, <<>> for one it cannot (toISOString then throws)
toISOString(s) ==
    CASE s = "2024-01-15T10:30:00Z" -> <<"2024-01-15T10:30:00.000Z">>
      [] s = "2024-01-15T10:30:00.000Z" -> <<"2024-01-15T10:30:00.000Z">>
      [] s = "January 15, 2024" -> <<"2024-01-15T00:00:00.000Z">>
      [] OTHER -> <<>>

RangeError == [name |-> "RangeError", message |-> "Invalid time value"]

\* new Date().toISOString()
Now == "<now>"

\* getTimestamp(timestamp): [error |-> <<e>>] when it throws, else [error |-> <<>>, value |-> iso]
getTimestamp(timestamp) ==
    IF Truthy(timestamp)
    THEN IF toISOString(timestamp.str) = <<>>
         THEN [error |-> <<RangeError>>, value |-> ""]
         ELSE [error |-> <<>>, value |-> toISOString(timestamp.str)[1]]
    ELSE [error |-> <<>>, value |-> Now]

\* buildReturnData(data): data is a list (a sequence of objects) or one object
buildReturnData(data) ==
    IF IsArr(data) THEN [k \in 1..Len(data.arr) |-> [json |-> data.arr[k]]]
    ELSE <<[json |-> data.obj]>>

----------------------------------------------------------------------------
(* The resource modules.  Each execute...Operation runs synchronously up to  *)
(* its one transport call; the operators below give, for an operation and   *)
(* the parameters p of the current item, what that is: the error thrown     *)
(* before any transport call, or the attentiveApiRequest /                  *)
(* attentiveApiRequestAllItems call made and how responseData is built from *)
(* its response.                                                            *)
(*                                                                          *)
(* p.phone: 'phone' or 'to';  p.identifierType, p.email, p.returnAll,       *)
(* p.limit, p.notification: the parameters of these names;  p.id: the       *)
(* entity id (segmentId, journeyId, ...);  p.text: the required string      *)
(* (signUpSourceId, body, eventType, attributeKey, orderId, segmentName,    *)
(* webhookUrl);  p.text2: messageName or description;  p.options: the       *)
(* optional collection (additionalFields, updateFields, options,            *)
(* eventOptions, orderOptions, filters, dateRange, ...);  p.entries: the    *)
(* fixed-collection list (recipients, events, subscribers);                 *)
(* p.attributes: 'attributes';  p.products: 'items';  p.events: 'events'.   *)
(***************************************************************************)

Throw(e) == [tag |-> "throw", error |-> e]
Request(method, endpoint, body, query, result) ==
    [tag |-> "request", method |-> method, endpoint |-> endpoint, body |-> body,
     query |-> query, result |-> result]
RequestAll(method, endpoint, body, query, dataKey) ==
    [tag |-> "requestAll", method |-> method, endpoint |-> endpoint, body |-> body,
     query |-> query, dataKey |-> dataKey]

\* responseData = response;  responseData = response[key] || [];
\* responseData = { success: true, <entityId> }
Whole == [kind |-> "response"]
Field(key) == [kind |-> "field", key |-> key]
Success(record) == [kind |-> "success", record |-> record]

UnknownOperation(op) == [name |-> "Error", message |-> "Unknown operation: " \o op]

\* a module that normalizes the phone but leaves out the validation
checkedPhone_noValidate(raw) ==
    LET phone == formatPhoneNumber(raw)
    IN  [error |-> <<>>, phone |-> JStr(Str(phone))]

\* const phone = formatPhoneNumber(raw); validatePhoneNumber(phone, this)
checkedPhone(raw) ==
    LET phone == formatPhoneNumber(raw)
    IN  [error |-> validatePhoneNumber(phone), phone |-> JStr(Str(phone))]

\* the identifierType branch of customEvent send, customAttribute set/delete, ecommerce
identifiedUser(p) ==
    IF p.identifierType = "phone"
    THEN LET c == checkedPhone(p.phone)
         IN  [error |-> c.error, user |-> [phone |-> c.phone]]
    ELSE [error |-> <<>>, user |-> [email |-> p.email]]

\* the loop over a list: the user of each entry, up to the first invalid phone
RECURSIVE firstInvalid(_, _)
firstInvalid(entries, k) ==
    IF k > Len(entries) THEN <<>>
    ELSE IF checkedPhone(entries[k].phone).error # <<>>
         THEN checkedPhone(entries[k].phone).error
         ELSE firstInvalid(entries, k + 1)

executeSubscriberOperation(op, p) ==
    LET c == checkedPhone(p.phone)
        user == [phone |-> c.phone]
        f == p.options
        withEmail == PutIf(Truthy(Get(f, "email")), user, "email", Get(f, "email"))
        attrs == parseCustomAttributes(Get(f, "customAttributes"))
        withAttrs(b) == PutIf(Truthy(Get(f, "customAttributes")) /\ Keys(attrs) # {},
                              b, "customAttributes", JObj(attrs))
    IN  IF c.error # <<>> THEN Throw(c.error[1])
        ELSE CASE op = "subscribe" ->
                    LET b0 == [user |-> JObj(withEmail), signUpSourceId |-> p.text]
                        b1 == CopyTruthy(b0, f, {"subscriptionType", "locale"})
                        b2 == CopyDefined(b1, f, {"notifications"})
                        b3 == withAttrs(b2)
                        b4 == PutIf(Truthy(Get(f, "externalIdKey"))
                                    /\ Truthy(Get(f, "externalIdValue")),
                                    b3, "externalIdentifiers",
                                    JObj((Get(f, "externalIdKey").str :> Get(f, "externalIdValue"))))
                    IN  Request("POST", "/subscriptions", cleanObject(b4), EmptyObj, Whole)
               [] op = "unsubscribe" ->
                    Request("POST", "/subscriptions/unsubscribe",
                            [user |-> JObj(user), notification |-> p.notification],
                            EmptyObj, Whole)
               [] op = "get" ->
                    Request("GET", "/subscriptions", EmptyObj, [phone |-> c.phone], Whole)
               [] op = "update" ->
                    LET b0 == [user |-> JObj(withEmail)]
                        b1 == CopyTruthy(b0, f, {"locale"})
                    IN  Request("PATCH", "/subscribers", cleanObject(withAttrs(b1)), EmptyObj, Whole)
               [] OTHER -> Throw(UnknownOperation(op))

executeMessageOperation(op, p) ==
    LET c == checkedPhone(p.phone)
        o == p.options
    IN  CASE op = "send" ->
                IF c.error # <<>> THEN Throw(c.error[1])
                ELSE LET b0 == [to |-> c.phone, body |-> p.text]
                         b1 == CopyTruthy(b0, o, {"subscriptionType", "mediaUrl", "messageName"})
                         b2 == CopyDefined(b1, o, {"useShortLinks", "skipFatigue"})
                         b3 == CopyTruthy(b2, o, {"externalId"})
                     IN  Request("POST", "/messages/send", cleanObject(b3), EmptyObj, Whole)
          [] op = "sendBulk" ->
                IF firstInvalid(p.entries, 1) # <<>> THEN Throw(firstInvalid(p.entries, 1)[1])
                ELSE LET recipients == [k \in 1..Len(p.entries) |->
                                           JObj([phone |-> checkedPhone(p.entries[k].phone).phone])]
                         b0 == [recipients |-> JArr(recipients), body |-> p.text]
                         b1 == CopyTruthy(b0, o, {"subscriptionType", "mediaUrl", "messageName"})
                         b2 == CopyDefined(b1, o, {"useShortLinks"})
                     IN  Request("POST", "/messages/bulk", cleanObject(b2), EmptyObj, Whole)
          [] op = "sendTransactional" ->
                IF c.error # <<>> THEN Throw(c.error[1])
                ELSE LET b0 == [to |-> c.phone, body |-> p.text, messageName |-> p.text2,
                                subscriptionType |-> JStr("TRANSACTIONAL")]
                         b1 == CopyTruthy(b0, o, {"mediaUrl", "externalId"})
                         list == IF Truthy(Get(o, "variables"))
                                 THEN Get(o["variables"].obj, "variable") ELSE JUndef
                         variables == IF IsArr(list) THEN attributesOf(list.arr, Len(list.arr))
                                      ELSE EmptyObj
                         b2 == PutIf(Keys(variables) # {}, b1, "variables", JObj(variables))
                     IN  Request("POST", "/messages/transactional", cleanObject(b2), EmptyObj, Whole)
          [] OTHER -> Throw(UnknownOperation(op))

\* the user of one entry of customEvent sendBatch / customAttribute setBatch
entryUser(e, base) ==
    IF e.phone # <<>> THEN Put(base, "user", JObj([phone |-> checkedPhone(e.phone).phone]))
    ELSE IF Truthy(e.email) THEN Put(base, "user", JObj([email |-> e.email]))
    ELSE base

\* the entries that carry a phone: only these are validated
withPhone(entries) == SelectSeq(entries, LAMBDA e : e.phone # <<>>)

executeCustomEventOperation(op, p) ==
    CASE op = "send" ->
            LET u == identifiedUser(p)
                o == p.options
                t == getTimestamp(Get(o, "occurredAt"))
                props == parseCustomAttributes(Get(o, "properties"))
                b0 == [type |-> p.text, user |-> JObj(u.user), occurredAt |-> JStr(t.value)]
                b1 == CopyTruthy(b0, o, {"externalId"})
                b2 == PutIf(Truthy(Get(o, "properties")) /\ Keys(props) # {},
                            b1, "properties", JObj(props))
            IN  IF u.error # <<>> THEN Throw(u.error[1])
                ELSE IF t.error # <<>> THEN Throw(t.error[1])
                ELSE Request("POST", "/events/custom", cleanObject(b2), EmptyObj, Whole)
      [] op = "sendBatch" ->
            IF firstInvalid(withPhone(p.entries), 1) # <<>>
            THEN Throw(firstInvalid(withPhone(p.entries), 1)[1])
            ELSE LET events == [k \in 1..Len(p.entries) |->
                                   JObj(entryUser(p.entries[k],
                                                  [type |-> p.entries[k].name,
                                                   occurredAt |-> JStr(Now)]))]
                 IN  Request("POST", "/events/custom/batch", [events |-> JArr(events)],
                             EmptyObj, Whole)
      [] OTHER -> Throw(UnknownOperation(op))

executeCustomAttributeOperation(op, p) ==
    CASE op = "set" ->
            LET u == identifiedUser(p)
                b == [user |-> JObj(u.user),
                      properties |-> JObj(parseCustomAttributes(p.attributes))]
            IN  IF u.error # <<>> THEN Throw(u.error[1])
                ELSE Request("POST", "/attributes/custom", cleanObject(b), EmptyObj, Whole)
      [] op = "setBatch" ->
            IF firstInvalid(withPhone(p.entries), 1) # <<>>
            THEN Throw(firstInvalid(withPhone(p.entries), 1)[1])
            ELSE LET updates == [k \in 1..Len(p.entries) |->
                                    JObj(entryUser(p.entries[k],
                                                   [properties |-> JObj((p.entries[k].name.str
                                                                         :> p.entries[k].value))]))]
                 IN  Request("POST", "/attributes/custom/batch", [updates |-> JArr(updates)],
                             EmptyObj, Whole)
      [] op = "delete" ->
            LET u == identifiedUser(p)
                b == [attributeKey |-> p.text, user |-> JObj(u.user)]
            IN  IF u.error # <<>> THEN Throw(u.error[1])
                ELSE Request("DELETE", "/attributes/custom", cleanObject(b), EmptyObj, Whole)
      [] OTHER -> Throw(UnknownOperation(op))

\* value and currency of an order amount
amount(o, k) == JObj([value |-> Get(o, k),
                      currency |-> IF Truthy(Get(o, "currency")) THEN Get(o, "currency")
                                   ELSE JStr("USD")])

executeEcommerceOperation(op, p) ==
    LET u == identifiedUser(p)
        o == p.options
        t == getTimestamp(Get(o, "occurredAt"))
        b0 == [user |-> JObj(u.user), items |-> JArr(parseProductItems(p.products))]
        timed == Put(b0, "occurredAt", JStr(t.value))
        slug == CASE op = "productView" -> "product-view"
                  [] op = "addToCart" -> "add-to-cart"
                  [] op = "removeFromCart" -> "remove-from-cart"
                  [] op = "purchase" -> "purchase"
                  [] op = "abandoned" -> "abandoned"
                  [] OTHER -> ""
        body == CASE op \in {"productView", "addToCart", "removeFromCart"} ->
                        CopyTruthy(timed, o, {"externalId"})
                  [] op = "purchase" ->
                        LET b1 == CopyTruthy(Put(timed, "orderId", p.text), o, {"currency"})
                            b2 == PutIf(Truthy(Get(o, "totalAmount")), b1, "order",
                                        JObj([total |-> amount(o, "totalAmount")]))
                            b3 == PutIf(Truthy(Get(o, "discountAmount")), b2, "discount",
                                        amount(o, "discountAmount"))
                            b4 == PutIf(Truthy(Get(o, "shippingAmount")), b3, "shipping",
                                        amount(o, "shippingAmount"))
                            b5 == PutIf(Truthy(Get(o, "taxAmount")), b4, "tax",
                                        amount(o, "taxAmount"))
                        IN  CopyTruthy(b5, o, {"externalId"})
                  [] op = "abandoned" ->
                        LET b1 == CopyTruthy(timed, o, {"currency"})
                            b2 == PutIf(Truthy(Get(o, "totalAmount")), b1, "cart",
                                        JObj([total |-> amount(o, "totalAmount")]))
                        IN  CopyTruthy(b2, o, {"externalId"})
                  [] OTHER -> b0
    IN  IF u.error # <<>> THEN Throw(u.error[1])
        ELSE IF slug = "" THEN Throw(UnknownOperation(op))
        ELSE IF t.error # <<>> THEN Throw(t.error[1])
        ELSE Request("POST", "/events/ecommerce/" \o slug, cleanObject(body), EmptyObj, Whole)

\* a getAll branch that leaves the limit out of its own request
listOperation_noLimit(p, endpoint, query, dataKey) ==
    IF p.returnAll THEN RequestAll("GET", endpoint, EmptyObj, query, dataKey)
    ELSE Request("GET", endpoint, EmptyObj, query, Field(dataKey))

\* the getAll branch shared by the list operations: query is the query built so far
listOperation(p, endpoint, query, dataKey) ==
    IF p.returnAll THEN RequestAll("GET", endpoint, EmptyObj, query, dataKey)
    ELSE Request("GET", endpoint, EmptyObj, Put(query, "limit", JNum(p.limit)), Field(dataKey))

executeSegmentOperation(op, p) ==
    CASE op = "create" ->
            LET b0 == [name |-> p.text]
                b1 == PutIf(Truthy(p.text2), b0, "description", p.text2)
            IN  Request("POST", "/segments", cleanObject(b1), EmptyObj, Whole)
      [] op = "get" -> Request("GET", "/segments/" \o p.id, EmptyObj, EmptyObj, Whole)
      [] op = "getAll" -> listOperation(p, "/segments", EmptyObj, "segments")
      [] op = "update" ->
            Request("PATCH", "/segments/" \o p.id,
                    cleanObject(CopyTruthy(EmptyObj, p.options, {"name", "description"})),
                    EmptyObj, Whole)
      [] op = "delete" ->
            Request("DELETE", "/segments/" \o p.id, EmptyObj, EmptyObj,
                    Success([success |-> JBool(TRUE), segmentId |-> JStr(p.id)]))
      [] op = "getMembers" ->
            listOperation(p, "/segments/" \o p.id \o "/members", EmptyObj, "members")
      [] OTHER -> Throw(UnknownOperation(op))

\* the startDate/endDate query of getStats: new Date(x).toISOString() for each one set
statsQuery(dateRange) ==
    LET bad(k) == Truthy(Get(dateRange, k)) /\ toISOString(dateRange[k].str) = <<>>
        iso(k) == JStr(toISOString(dateRange[k].str)[1])
        set == {k \in {"startDate", "endDate"} : Truthy(Get(dateRange, k))}
    IN  IF bad("startDate") \/ bad("endDate") THEN [error |-> <<RangeError>>, query |-> EmptyObj]
        ELSE [error |-> <<>>, query |-> [k \in set |-> iso(k)]]

executeJourneyOperation(op, p) ==
    CASE op = "get" -> Request("GET", "/journeys/" \o p.id, EmptyObj, EmptyObj, Whole)
      [] op = "getAll" ->
            listOperation(p, "/journeys", CopyTruthy(EmptyObj, p.options, {"status"}), "journeys")
      [] op = "getStats" ->
            LET q == statsQuery(p.options)
            IN  IF q.error # <<>> THEN Throw(q.error[1])
                ELSE Request("GET", "/journeys/" \o p.id \o "/stats", EmptyObj, q.query, Whole)
      [] OTHER -> Throw(UnknownOperation(op))

executeSignUpUnitOperation(op, p) ==
    CASE op = "get" -> Request("GET", "/sign-up-units/" \o p.id, EmptyObj, EmptyObj, Whole)
      [] op = "getAll" ->
            listOperation(p, "/sign-up-units", CopyTruthy(EmptyObj, p.options, {"type"}),
                          "signUpUnits")
      [] op = "getStats" ->
            LET q == statsQuery(p.options)
            IN  IF q.error # <<>> THEN Throw(q.error[1])
                ELSE Request("GET", "/sign-up-units/" \o p.id \o "/stats", EmptyObj, q.query, Whole)
      [] OTHER -> Throw(UnknownOperation(op))

executeKeywordOperation(op, p) ==
    CASE op = "get" -> Request("GET", "/keywords/" \o p.id, EmptyObj, EmptyObj, Whole)
      [] op = "getAll" -> listOperation(p, "/keywords", EmptyObj, "keywords")
      [] OTHER -> Throw(UnknownOperation(op))

executeWebhookOperation(op, p) ==
    CASE op = "create" ->
            Request("POST", "/webhooks",
                    CopyTruthy([url |-> p.text, events |-> JArr(p.events)], p.options, {"secret"}),
                    EmptyObj, Whole)
      [] op = "getAll" -> listOperation(p, "/webhooks", EmptyObj, "webhooks")
      [] op = "delete" ->
            Request("DELETE", "/webhooks/" \o p.id, EmptyObj, EmptyObj,
                    Success([success |-> JBool(TRUE), webhookId |-> JStr(p.id)]))
      [] OTHER -> Throw(UnknownOperation(op))

\* the switch (resource) of execute
executeResource(res, op, p) ==
    CASE res = "subscriber" -> executeSubscriberOperation(op, p)
      [] res = "message" -> executeMessageOperation(op, p)
      [] res = "customEvent" -> executeCustomEventOperation(op, p)
      [] res = "customAttribute" -> executeCustomAttributeOperation(op, p)
      [] res = "ecommerce" -> executeEcommerceOperation(op, p)
      [] res = "segment" -> executeSegmentOperation(op, p)
      [] res = "journey" -> executeJourneyOperation(op, p)
      [] res = "signUpUnit" -> executeSignUpUnitOperation(op, p)
      [] res = "keyword" -> executeKeywordOperation(op, p)
      [] res = "webhook" -> executeWebhookOperation(op, p)
      [] OTHER -> Throw([name |-> "Error", message |-> "Unknown resource: " \o res])

----------------------------------------------------------------------------
(* The upstream API *)

Statuses == {400, 401, 403, 404, 429, 500, 503}

\* the error helpers.request rejects with: an HTTP status, or a transport failure
\* that carries no status (status 0 here)
RawError(status) ==
    IF status = 0 THEN [message |-> "connect ECONNREFUSED"]
    ELSE [statusCode |-> status, message |-> "upstream says no"]

\* the records a list endpoint returns for (offset, limit): at most server.cap of
\* them, from the offset when the server honours it
Page(srv, offset, lim) ==
    LET from == IF srv.honoursOffset THEN offset ELSE 0
        count == IF lim < srv.cap THEN lim ELSE srv.cap
        upto == IF from + count < srv.size THEN from + count ELSE srv.size
    IN  [k \in 1..(IF upto > from THEN upto - from ELSE 0) |-> JObj([id |-> JNum(from + k)])]

ListResponse(srv, dataKey, query) ==
    LET offset == IF "offset" \in Keys(query) THEN query["offset"].num ELSE 0
        lim == IF "limit" \in Keys(query) THEN query["limit"].num ELSE srv.cap
        data == IF srv.hasKey THEN (dataKey :> JArr(Page(srv, offset, lim))) ELSE EmptyObj
        meta == IF srv.total >= 0 THEN [meta |-> JObj([total |-> JNum(srv.total)])] ELSE EmptyObj
    IN  data @@ meta

ObjectResponse(req) == [id |-> JStr("r"), request |-> JNum(req.id)]

----------------------------------------------------------------------------
(* Transport: attentiveApiRequest, attentiveApiRequestAllItems, handleApiError *)

BASE_URL == "https://api.attentivemobile.com/v1"
limit == 100
maxIterations == 1000

apiKey == IF "apiKey" \in DOMAIN credentials THEN credentials.apiKey ELSE ""

NoApiKey == [name |-> "NodeOperationError", message |-> "No API key provided"]

\* options that carry every non-empty body, whatever the method
requestOptions_anyMethod(method, endpoint, body, query) ==
    [method |-> method,
     uri |-> BASE_URL \o endpoint,
     headers |-> [Authorization |-> "Bearer " \o apiKey,
                  ContentType |-> "application/json",
                  Accept |-> "application/json"],
     qs |-> query,
     json |-> TRUE]
    @@ (IF Keys(body) # {} THEN [body |-> body] ELSE <<>>)

\* the options attentiveApiRequest hands to helpers.request
requestOptions(method, endpoint, body, query) ==
    [method |-> method,
     uri |-> BASE_URL \o endpoint,
     headers |-> [Authorization |-> "Bearer " \o apiKey,
                  ContentType |-> "application/json",
                  Accept |-> "application/json"],
     qs |-> query,
     json |-> TRUE]
    @@ (IF Keys(body) # {} /\ method # "GET" THEN [body |-> body] ELSE <<>>)

\* new NodeApiError(node, error): the host's class keeps the raw error as its
\* cause; its message is the host's own, the upstream message or a text the host
\* derives from the status
NodeApiErrors(raw) ==
    {[name |-> "NodeApiError", message |-> m, cause |-> raw] :
        m \in {raw.message, "host message for the status"}}

\* the message handleApiError builds for a raw error
\* a classification that has no case for the rate limit
handleApiErrorMessage_no429(raw) ==
    LET errorMessage == IF "message" \in DOMAIN raw /\ raw.message # ""
                        THEN raw.message ELSE "Unknown error occurred"
        statusCode == IF "statusCode" \in DOMAIN raw THEN raw.statusCode ELSE 0
    IN  CASE statusCode = 400 -> "Bad Request: " \o errorMessage
          [] statusCode = 401 -> "Unauthorized: Invalid API key"
          [] statusCode = 403 -> "Forbidden: Insufficient permissions"
          [] statusCode = 404 -> "Not Found: Resource does not exist"
          [] statusCode = 500 -> "Server Error: Attentive API is experiencing issues"
          [] OTHER -> errorMessage

handleApiErrorMessage(raw) ==
    LET errorMessage == IF "message" \in DOMAIN raw /\ raw.message # ""
                        THEN raw.message ELSE "Unknown error occurred"
        statusCode == IF "statusCode" \in DOMAIN raw THEN raw.statusCode ELSE 0
    IN  CASE statusCode = 400 -> "Bad Request: " \o errorMessage
          [] statusCode = 401 -> "Unauthorized: Invalid API key"
          [] statusCode = 403 -> "Forbidden: Insufficient permissions"
          [] statusCode = 404 -> "Not Found: Resource does not exist"
          [] statusCode = 429 -> "Rate Limited: Too many requests. Please try again later."
          [] statusCode = 500 -> "Server Error: Attentive API is experiencing issues"
          [] OTHER -> errorMessage

\* handleApiError(error, node): the error it throws
handleApiError(raw) == [name |-> "NodeOperationError", message |-> handleApiErrorMessage(raw)]

----------------------------------------------------------------------------
(* The dispatcher: Attentive.execute *)

NoCall == [tag |-> "none"]

\* no request is issued: the outstanding requests and their outcomes become infl, outs
Quiet(infl, outs) ==
    /\ inflight' = infl
    /\ outcomes' = outs
    /\ UNCHANGED httpLog

\* a catch block that pairs the error record with the 1-based position of the item
Catch_oneBased(e, infl, outs) ==
    /\ Quiet(infl, outs)
    /\ raised' = Append(raised, [item |-> i, error |-> e])
    /\ call' = NoCall
    /\ settled' = [settled EXCEPT ![i + 1] = "error"]
    /\ IF continueOnFail
       THEN /\ returnData' = Append(returnData, [json |-> [error |-> JStr(e.message)],
                                                 pairedItem |-> [item |-> i + 1]])
            /\ i' = i + 1
            /\ pc' = "loop"
            /\ UNCHANGED thrown
       ELSE /\ thrown' = <<e>>
            /\ pc' = "thrown"
            /\ UNCHANGED <<returnData, i>>

\* a catch block that never rethrows: the error is dropped and the loop goes on
Catch_swallow(e, infl, outs) ==
    /\ Quiet(infl, outs)
    /\ raised' = Append(raised, [item |-> i, error |-> e])
    /\ call' = NoCall
    /\ settled' = [settled EXCEPT ![i + 1] = "error"]
    /\ returnData' = IF continueOnFail
                     THEN Append(returnData, [json |-> [error |-> JStr(e.message)],
                                              pairedItem |-> [item |-> i]])
                     ELSE returnData
    /\ i' = i + 1
    /\ pc' = "loop"
    /\ UNCHANGED thrown

\* the catch block of execute, for error e raised for item i
Catch(e, infl, outs) ==
    /\ Quiet(infl, outs)
    /\ raised' = Append(raised, [item |-> i, error |-> e])
    /\ call' = NoCall
    /\ settled' = [settled EXCEPT ![i + 1] = "error"]
    /\ IF continueOnFail
       THEN /\ returnData' = Append(returnData, [json |-> [error |-> JStr(e.message)],
                                                 pairedItem |-> [item |-> i]])
            /\ i' = i + 1
            /\ pc' = "loop"
            /\ UNCHANGED thrown
       ELSE /\ thrown' = <<e>>
            /\ pc' = "thrown"
            /\ UNCHANGED <<returnData, i>>

\* a push that puts the records of the item before those already there
Push_prepend(result, infl, outs) ==
    /\ Quiet(infl, outs)
    /\ call' = NoCall
    /\ settled' = [settled EXCEPT ![i + 1] = "results"]
    /\ returnData' = result \o returnData
    /\ i' = i + 1
    /\ pc' = "loop"
    /\ UNCHANGED <<thrown, raised>>

\* returnData.push(...result) and the next iteration of the loop
Push(result, infl, outs) ==
    /\ Quiet(infl, outs)
    /\ call' = NoCall
    /\ settled' = [settled EXCEPT ![i + 1] = "results"]
    /\ returnData' = returnData \o result
    /\ i' = i + 1
    /\ pc' = "loop"
    /\ UNCHANGED <<thrown, raised>>

\* a transport function that does not look at the key before it builds the request
attentiveApiRequest_noKeyCheck(method, endpoint, body, query) ==
    [error |-> <<>>, options |-> <<requestOptions(method, endpoint, body, query)>>]

\* attentiveApiRequest up to its await: the error it throws without a key, or the
\* options it hands to helpers.request
attentiveApiRequest(method, endpoint, body, query) ==
    IF apiKey = "" THEN [error |-> <<NoApiKey>>, options |-> <<>>]
    ELSE [error |-> <<>>, options |-> <<requestOptions(method, endpoint, body, query)>>]

\* a transport call made for item i: attentiveApiRequest throws, which nothing
\* below execute catches, or its request goes out and the call is suspended as `next`
await(sent, next, infl, outs) ==
    IF sent.error # <<>> THEN Catch(sent.error[1], infl, outs)
    ELSE LET req == [id |-> Len(httpLog) + 1, item |-> i, options |-> sent.options[1]]
         IN  /\ inflight' = infl \cup {req}
             /\ httpLog' = Append(httpLog, req)
             /\ outcomes' = Append(outs, "pending")
             /\ call' = next
             /\ pc' = "await"
             /\ UNCHANGED <<returnData, i, thrown, settled, raised>>

\* one iteration of the loop of attentiveApiRequestAllItems up to its await
requestPage(c, infl, outs) ==
    await(attentiveApiRequest(c.method, c.endpoint, c.body,
                              Put(Put(c.query, "limit", JNum(limit)), "offset", JNum(c.offset))),
          c, infl, outs)

\* the loop body for item i: the resource module runs up to its first await (or
\* to the error it throws before)
runItem ==
    /\ i < Len(items)
    /\ executed' = [executed EXCEPT ![i + 1] = @ + 1]
    /\ LET plan == executeResource(resource, operation, items[i + 1])
       IN  CASE plan.tag = "throw" -> Catch(plan.error, inflight, outcomes)
             [] plan.tag = "request" ->
                    await(attentiveApiRequest(plan.method, plan.endpoint, plan.body, plan.query),
                          [tag |-> "request", result |-> plan.result],
                          inflight, outcomes)
             [] plan.tag = "requestAll" ->
                    requestPage([tag |-> "requestAll", method |-> plan.method,
                                 endpoint |-> plan.endpoint, body |-> plan.body,
                                 query |-> plan.query, dataKey |-> plan.dataKey,
                                 offset |-> 0, iteration |-> 0, returnData |-> <<>>],
                                inflight, outcomes)
    /\ UNCHANGED <<items, resource, operation, continueOnFail, credentials, server>>
    /\ UNCHANGED <<utilVars, triggerVars>>

\* a loop that does not await the module: the body is entered again while the
\* request of the previous entry is outstanding
ExecuteItem_noAwait ==
    /\ pc \in {"loop", "await"}
    /\ runItem

\* execute enters the loop body only when the previous iteration has completed:
\* every call in the body is awaited
ExecuteItem ==
    /\ pc = "loop"
    /\ runItem

\* a loop that goes on until more records than the total have arrived
nextPage_strict(c, response, infl, outs) ==
    LET data == Get(response, c.dataKey)
        acc == IF IsArr(data) THEN c.returnData \o data.arr ELSE c.returnData
        meta == Get(response, "meta")
        total == IF IsObj(meta) THEN Get(meta.obj, "total") ELSE JUndef
    IN  IF ~Truthy(total) \/ Len(acc) > total.num \/ c.iteration + 1 >= maxIterations
        THEN Push(buildReturnData(JArr(acc)), infl, outs)
        ELSE requestPage([c EXCEPT !.offset = @ + limit, !.iteration = @ + 1,
                                   !.returnData = acc],
                         infl, outs)

\* a loop whose safety limit is compared with the offset instead of the iteration
nextPage_offsetCap(c, response, infl, outs) ==
    LET data == Get(response, c.dataKey)
        acc == IF IsArr(data) THEN c.returnData \o data.arr ELSE c.returnData
        meta == Get(response, "meta")
        total == IF IsObj(meta) THEN Get(meta.obj, "total") ELSE JUndef
    IN  IF ~Truthy(total) \/ Len(acc) >= total.num \/ c.offset + limit >= maxIterations
        THEN Push(buildReturnData(JArr(acc)), infl, outs)
        ELSE requestPage([c EXCEPT !.offset = @ + limit, !.iteration = @ + 1,
                                   !.returnData = acc],
                         infl, outs)

\* a loop that only stops on a total that has been reached
nextPage_needsTotal(c, response, infl, outs) ==
    LET data == Get(response, c.dataKey)
        acc == IF IsArr(data) THEN c.returnData \o data.arr ELSE c.returnData
        meta == Get(response, "meta")
        total == IF IsObj(meta) THEN Get(meta.obj, "total") ELSE JUndef
    IN  IF (Truthy(total) /\ Len(acc) >= total.num) \/ c.iteration + 1 >= maxIterations
        THEN Push(buildReturnData(JArr(acc)), infl, outs)
        ELSE requestPage([c EXCEPT !.offset = @ + limit, !.iteration = @ + 1,
                                   !.returnData = acc],
                         infl, outs)

\* the rest of attentiveApiRequestAllItems' iteration for a response
nextPage(c, response, infl, outs) ==
    LET data == Get(response, c.dataKey)
        acc == IF IsArr(data) THEN c.returnData \o data.arr ELSE c.returnData
        meta == Get(response, "meta")
        total == IF IsObj(meta) THEN Get(meta.obj, "total") ELSE JUndef
    IN  IF ~Truthy(total) \/ Len(acc) >= total.num \/ c.iteration + 1 >= maxIterations
        THEN Push(buildReturnData(JArr(acc)), infl, outs)
        ELSE requestPage([c EXCEPT !.offset = @ + limit, !.iteration = @ + 1,
                                   !.returnData = acc],
                         infl, outs)

\* responseData of a single-request operation
responseDataOf(result, response) ==
    CASE result.kind = "response" -> JObj(response)
      [] result.kind = "field" ->
            IF Truthy(Get(response, result.key)) THEN response[result.key] ELSE JArr(<<>>)
      [] result.kind = "success" -> JObj(result.record)

\* helpers.request resolves: the suspended call resumes with the response
RequestSucceeds ==
    /\ pc = "await"
    /\ \E req \in inflight :
        LET infl == inflight \ {req}
            outs == [outcomes EXCEPT ![req.id] = "ok"]
        IN  IF call.tag = "requestAll"
            THEN nextPage(call, ListResponse(server, call.dataKey, req.options.qs), infl, outs)
            ELSE LET response == IF call.result.kind = "field"
                                 THEN ListResponse(server, call.result.key, req.options.qs)
                                 ELSE ObjectResponse(req)
                 IN  Push(buildReturnData(responseDataOf(call.result, response)), infl, outs)
    /\ UNCHANGED <<items, resource, operation, continueOnFail, credentials, server, executed>>
    /\ UNCHANGED <<utilVars, triggerVars>>

\* a transport function that sends a rate-limited request once more before it
\* gives up
RequestFails_retry ==
    /\ pc = "await"
    /\ \E req \in inflight, status \in server.failures :
        \E e \in NodeApiErrors(RawError(status)) :
            IF status = 429 /\ \A n \in 1..Len(outcomes) : outcomes[n] # "failed"
            THEN LET again == [req EXCEPT !.id = Len(httpLog) + 1]
                 IN  /\ inflight' = {again}
                     /\ httpLog' = Append(httpLog, again)
                     /\ outcomes' = Append([outcomes EXCEPT ![req.id] = "failed"], "pending")
                     /\ UNCHANGED <<pc, call, returnData, i, thrown, settled, raised>>
            ELSE Catch(e, inflight \ {req}, [outcomes EXCEPT ![req.id] = "failed"])
    /\ UNCHANGED <<items, resource, operation, continueOnFail, credentials, server, executed>>
    /\ UNCHANGED <<utilVars, triggerVars>>

\* helpers.request rejects: attentiveApiRequest wraps the error in a NodeApiError,
\* which no caller below execute catches
RequestFails ==
    /\ pc = "await"
    /\ \E req \in inflight, status \in server.failures :
        \E e \in NodeApiErrors(RawError(status)) :
            Catch(e, inflight \ {req}, [outcomes EXCEPT ![req.id] = "failed"])
    /\ UNCHANGED <<items, resource, operation, continueOnFail, credentials, server, executed>>
    /\ UNCHANGED <<utilVars, triggerVars>>

\* return [returnData]
ReturnResults ==
    /\ pc = "loop"
    /\ i = Len(items)
    /\ pc' = "done"
    /\ UNCHANGED <<items, resource, operation, continueOnFail, credentials, server, i,
                   returnData, thrown, call, inflight, httpLog, outcomes, executed, settled,
                   raised, utilVars, triggerVars>>

Next == ExecuteItem \/ RequestSucceeds \/ RequestFails \/ ReturnResults

----------------------------------------------------------------------------
(* Inputs: the operations of the node, the item parameters, the servers *)

Resources == {"subscriber", "message", "customEvent", "customAttribute", "ecommerce",
              "segment", "journey", "signUpUnit", "keyword", "webhook"}

KnownOperations(res) ==
    CASE res = "subscriber" -> {"subscribe", "unsubscribe", "get", "update"}
      [] res = "message" -> {"send", "sendBulk", "sendTransactional"}
      [] res = "customEvent" -> {"send", "sendBatch"}
      [] res = "customAttribute" -> {"set", "setBatch", "delete"}
      [] res = "ecommerce" -> {"productView", "addToCart", "removeFromCart", "purchase",
                               "abandoned"}
      [] res = "segment" -> {"create", "get", "getAll", "update", "delete", "getMembers"}
      [] res = "journey" -> {"get", "getAll", "getStats"}
      [] res = "signUpUnit" -> {"get", "getAll", "getStats"}
      [] res = "keyword" -> {"get", "getAll"}
      [] res = "webhook" -> {"create", "getAll", "delete"}
      [] OTHER -> {}

\* every (resource, operation) the host may hand over: the operations of each
\* resource, an operation none of them knows, and a resource the node does not know
Selections ==
    UNION {{<<res, op>> : op \in KnownOperations(res) \cup {"frobnicate"}} : res \in Resources}
    \cup {<<"campaign", "get">>}

ListSelections == {<<"segment", "getAll">>, <<"segment", "getMembers">>, <<"journey", "getAll">>,
                   <<"signUpUnit", "getAll">>, <<"keyword", "getAll">>, <<"webhook", "getAll">>}

\* the parameters an operation reads (getNodeParameter), by the model's field names
Reads(res, op) ==
    CASE res = "subscriber" ->
            {"phone"} \cup (CASE op = "subscribe" -> {"text", "options"}
                              [] op = "unsubscribe" -> {"notification"}
                              [] op = "update" -> {"options"}
                              [] OTHER -> {})
      [] res = "message" ->
            CASE op = "send" -> {"phone", "text", "options"}
              [] op = "sendBulk" -> {"text", "entries", "options"}
              [] op = "sendTransactional" -> {"phone", "text", "text2", "options"}
              [] OTHER -> {}
      [] res = "customEvent" ->
            CASE op = "send" -> {"text", "identifierType", "phone", "email", "options"}
              [] op = "sendBatch" -> {"entries"}
              [] OTHER -> {}
      [] res = "customAttribute" ->
            CASE op = "set" -> {"identifierType", "phone", "email", "attributes"}
              [] op = "setBatch" -> {"entries"}
              [] op = "delete" -> {"identifierType", "phone", "email", "text"}
              [] OTHER -> {}
      [] res = "ecommerce" ->
            {"identifierType", "phone", "email", "products"}
            \cup (CASE op = "purchase" -> {"text", "options"}
                    [] op \in KnownOperations(res) -> {"options"}
                    [] OTHER -> {})
      [] res = "segment" ->
            CASE op = "create" -> {"text", "text2"}
              [] op \in {"getAll", "getMembers"} -> {"returnAll"}
              [] op = "update" -> {"options"}
              [] OTHER -> {}
      [] res \in {"journey", "signUpUnit"} ->
            CASE op = "getAll" -> {"returnAll", "options"}
              [] op = "getStats" -> {"options"}
              [] OTHER -> {}
      [] res = "keyword" -> IF op = "getAll" THEN {"returnAll"} ELSE {}
      [] res = "webhook" ->
            CASE op = "create" -> {"text", "options"}
              [] op = "getAll" -> {"returnAll"}
              [] OTHER -> {}
      [] OTHER -> {}

ValidPhone == <<"+", "1", "1">>
InvalidPhone == <<"+", "0">>
Repeat(c, n) == [k \in 1..n |-> c]
PhoneAlphabet == {"+", "0", "1", "-"}

\* every string over the alphabet up to the bound, and the two at the length limit
Phones ==
    UNION {[1..n -> PhoneAlphabet] : n \in 0..MaxPhoneLen}
    \cup {<<"+">> \o Repeat("1", 15), <<"+">> \o Repeat("1", 16)}

EntryOf(phone, email) == [phone |-> phone, email |-> email, name |-> JStr("k"), value |-> JStr("v")]
Entries == {EntryOf(ph, em) : ph \in {<<>>, ValidPhone, <<"1", "-", "1">>, InvalidPhone},
                              em \in {JStr(""), JStr("a@b.c")}}

OptionObjects ==
    {EmptyObj,
     [email |-> JStr("e@x.y"), locale |-> JStr("")],
     [occurredAt |-> JStr("not-a-date")],
     [occurredAt |-> JStr("2024-01-15T10:30:00Z"), externalId |-> JStr("x1"),
      totalAmount |-> JNum(5)],
     [startDate |-> JStr("2024-01-15T10:30:00Z"), endDate |-> JStr("not-a-date")],
     [startDate |-> JStr("January 15, 2024"), status |-> JStr("active"),
      type |-> JStr("popup"), secret |-> JStr("s3"), name |-> JStr("n")]}

OneAttribute == JObj([attributes |-> JArr(<<JObj([key |-> JStr("firstName"),
                                                  value |-> JStr("John")])>>)])
OneProduct == JObj([items |-> JArr(<<JObj([productId |-> JStr("SKU123"),
                                           name |-> JStr("Test Product"),
                                           price |-> <<"2", "9", ".", "9", "9">>,
                                           currency |-> JStr("USD"),
                                           quantity |-> <<"2">>])>>)])

DefaultItem ==
    [phone |-> ValidPhone, identifierType |-> "phone", email |-> JStr("a@b.c"),
     returnAll |-> FALSE, limit |-> 50, notification |-> JBool(FALSE), id |-> "42",
     text |-> JStr("t"), text2 |-> JStr(""), options |-> EmptyObj, entries |-> <<>>,
     attributes |-> OneAttribute, products |-> OneProduct,
     events |-> <<JStr("message.sent")>>]

\* the values the parameters range over when one item is examined in depth
RichDomain ==
    [phone |-> Phones, identifierType |-> {"phone", "email"},
     email |-> {JStr("a@b.c"), JStr("not an email"), JStr("")},
     returnAll |-> BOOLEAN, limit |-> {50}, notification |-> {JBool(FALSE), JBool(TRUE)},
     id |-> {"42"}, text |-> {JStr("t"), JStr("")}, text2 |-> {JStr(""), JStr("d")},
     options |-> OptionObjects,
     entries |-> UNION {[1..n -> Entries] : n \in 0..MaxEntries},
     attributes |-> {OneAttribute, JUndef}, products |-> {OneProduct, JUndef},
     events |-> {<<JStr("message.sent")>>}]

\* the values the parameters range over in a batch of several items
BatchDomain ==
    [phone |-> {ValidPhone, InvalidPhone}, identifierType |-> {"phone"},
     email |-> {JStr("a@b.c")},
     returnAll |-> BOOLEAN, limit |-> {50}, notification |-> {JBool(FALSE)},
     id |-> {"42"}, text |-> {JStr("t")}, text2 |-> {JStr("")},
     options |-> {EmptyObj},
     entries |-> {<<>>, <<EntryOf(InvalidPhone, JStr(""))>>},
     attributes |-> {OneAttribute}, products |-> {OneProduct},
     events |-> {<<JStr("message.sent")>>}]

\* the items over a domain that differ from the default item only in parameters the
\* operation reads; the phone and the email only when they are the identifier, and
\* the whole range of phones only beside default texts and options
ItemsOver(dom, res, op) ==
    LET D(f) == IF f \in Reads(res, op) THEN dom[f] ELSE {DefaultItem[f]}
    IN  {p \in [phone : D("phone"), identifierType : D("identifierType"), email : D("email"),
                returnAll : D("returnAll"), limit : D("limit"),
                notification : D("notification"), id : D("id"), text : D("text"),
                text2 : D("text2"), options : D("options"), entries : D("entries"),
                attributes : D("attributes"), products : D("products"),
                events : D("events")] :
            /\ p.identifierType = "email" => p.phone = DefaultItem.phone
            /\ p.identifierType = "phone" => p.email = DefaultItem.email
            /\ p.phone \in {ValidPhone, InvalidPhone, <<>>}
               \/ (p.text = DefaultItem.text /\ p.text2 = DefaultItem.text2
                   /\ p.options = DefaultItem.options /\ p.attributes = DefaultItem.attributes
                   /\ p.products = DefaultItem.products)}

Server(size, total, cap, honoursOffset, hasKey, failures) ==
    [size |-> size, total |-> total, cap |-> cap, honoursOffset |-> honoursOffset,
     hasKey |-> hasKey, failures |-> failures]

\* a server that pages honestly over `size` records and declares their number
Honest(size, failures) == Server(size, size, limit, TRUE, TRUE, failures)

\* a server whose list responses carry neither the data key nor a total
Keyless == Server(2, 0 - 1, limit, TRUE, FALSE, {})

\* servers that break the protocol of limit, offset and total in one way each
OddServers ==
         {Server(0, 5, limit, TRUE, TRUE, {}),         \* empty pages, a total never reached
          Server(120, 120, 50, TRUE, TRUE, {}),        \* pages capped at 50 records
          Server(150, 0 - 1, limit, TRUE, TRUE, {500}),\* declares no total
          Server(3, 3, limit, TRUE, FALSE, {}),        \* the data key is absent
          Server(250, 250, limit, FALSE, TRUE, {500})} \* ignores the offset

PageServers == {Honest(t, {500}) : t \in 0..MaxTotal} \cup OddServers

InitControl ==
    /\ pc = "loop"
    /\ i = 0
    /\ returnData = <<>>
    /\ thrown = <<>>
    /\ call = NoCall
    /\ inflight = {}
    /\ httpLog = <<>>
    /\ outcomes = <<>>
    /\ executed = [k \in 1..Len(items) |-> 0]
    /\ settled = [k \in 1..Len(items) |-> "no"]
    /\ raised = <<>>
    /\ utilCall = NoCall
    /\ utilResult = <<>>
    /\ delivery = NoCall
    /\ reply = <<>>
    /\ licensingNoticeLogged = TRUE
    /\ banners = 1
    /\ webhookData = EmptyObj
    /\ hook = NoCall

\* a batch of up to MaxItems items
Init ==
    /\ \E sel \in Selections :
        /\ resource = sel[1]
        /\ operation = sel[2]
        /\ items \in UNION {[1..n -> ItemsOver(BatchDomain, sel[1], sel[2])] : n \in 0..MaxItems}
    /\ continueOnFail \in BOOLEAN
    /\ credentials \in {[apiKey |-> "key-1"], [apiKey |-> ""]}
    /\ server = Honest(101, {429})
    /\ InitControl

\* one item, its parameters examined in depth
InitItem ==
    /\ \E sel \in Selections :
        /\ resource = sel[1]
        /\ operation = sel[2]
        /\ \E p \in ItemsOver(RichDomain, sel[1], sel[2]) : items = <<p>>
    /\ continueOnFail \in BOOLEAN
    /\ credentials \in {[apiKey |-> "key-1"], [apiKey |-> ""], EmptyObj}
    /\ server \in {Honest(2, Statuses \cup {0})}
                 \cup (IF <<resource, operation>> \in ListSelections THEN {Keyless} ELSE {})
    /\ InitControl

\* one item fetching a whole collection from each kind of server; continueOnFail
\* is only consulted on a failure, so it is fixed where the server never fails
InitPages ==
    /\ \E sel \in ListSelections :
        /\ resource = sel[1]
        /\ operation = sel[2]
    /\ items = <<[DefaultItem EXCEPT !.returnAll = TRUE]>>
    /\ credentials = [apiKey |-> "key-1"]
    /\ server \in PageServers
    /\ continueOnFail \in IF server.failures = {} THEN {FALSE} ELSE BOOLEAN
    /\ InitControl

Spec == Init /\ [][Next]_vars
SpecItem == InitItem /\ [][Next]_vars
SpecPages == InitPages /\ [][Next]_vars

\* one item fetching a whole collection from a server that answers oddly, or
\* honestly with a total at the edges of a page
InitAnswers ==
    /\ \E sel \in ListSelections :
        /\ resource = sel[1]
        /\ operation = sel[2]
    /\ items = <<[DefaultItem EXCEPT !.returnAll = TRUE]>>
    /\ credentials = [apiKey |-> "key-1"]
    /\ server \in OddServers \cup {Honest(t, {500}) : t \in {0, 1, limit, limit + 1, MaxTotal}}
    /\ continueOnFail \in IF server.failures = {} THEN {FALSE} ELSE BOOLEAN
    /\ InitControl

\* once execute runs, the host keeps running it: each await is answered, and the
\* loop goes on
FairSpecPages == InitAnswers /\ [][Next]_vars /\ WF_vars(Next)

----------------------------------------------------------------------------
(* Properties of the dispatcher *)

ErrorRecord(e, k) == [json |-> [error |-> JStr(e.message)], pairedItem |-> [item |-> k]]
IsErrorRecord(r) == "pairedItem" \in DOMAIN r
Selection == <<resource, operation>>
Range(seq) == {seq[n] : n \in 1..Len(seq)}
RequestsOf(k) == {n \in 1..Len(httpLog) : httpLog[n].item = k}

\* a step in which an error reaches the catch block while failures are tolerated
\* appends exactly the error record of the current item and moves on to the next
C1_Step ==
    (continueOnFail /\ raised' # raised) =>
        LET f == raised'[Len(raised')]
        IN  /\ raised' = Append(raised, f)
            /\ f.item = i
            /\ returnData' = Append(returnData, ErrorRecord(f.error, i))
            /\ DOMAIN returnData'[Len(returnData')] = {"json", "pairedItem"}
            /\ DOMAIN returnData'[Len(returnData')].json = {"error"}
            /\ i' = i + 1
            /\ pc' = "loop"
            /\ thrown' = <<>>

\* a finished batch of operations that answer with one record each has one entry
\* per item, the error records exactly in the positions of the failed items
C1_Batch ==
    (pc = "done" /\ continueOnFail /\ Selection \notin ListSelections) =>
        /\ Len(returnData) = Len(items)
        /\ \A k \in 1..Len(items) :
            /\ IsErrorRecord(returnData[k]) <=> settled[k] = "error"
            /\ IsErrorRecord(returnData[k]) => returnData[k].pairedItem.item = k - 1

\* C1: with continue-on-fail enabled, a failure while processing item i appends
\* exactly one error record holding only the failure's message and the index i,
\* and the dispatcher proceeds to item i+1; a batch of N items whose operations
\* yield one payload each has N entries in the result list, however many fail.
C1_ContinueOnFail == [][C1_Step]_vars /\ [](C1_Batch)

C1_Witness ==
    /\ pc = "done"
    /\ continueOnFail
    /\ settled = <<"results", "error", "results">>
    /\ Len(returnData) = 3
    /\ Len(raised) = 1
    /\ returnData[2] = ErrorRecord(raised[1].error, 1)
    /\ Len(httpLog) = 2

\* the execution has ended either by rethrowing the first failure, with no later
\* item touched, or by returning after every item was processed
C2_Ended ==
    /\ pc = "thrown" =>
            /\ ~continueOnFail
            /\ Len(raised) = 1
            /\ thrown = <<raised[1].error>>
            /\ raised[1].item = i
            /\ inflight = {}
            /\ \A k \in 1..Len(items) : k > i + 1 => executed[k] = 0 /\ settled[k] = "no"
            /\ \A n \in 1..Len(httpLog) : httpLog[n].item <= i
            /\ \A r \in Range(returnData) : ~IsErrorRecord(r)
    /\ (~continueOnFail /\ raised # <<>>) => pc = "thrown"
    /\ pc = "done" =>
            /\ thrown = <<>>
            /\ i = Len(items)
            /\ \A k \in 1..Len(items) :
                    settled[k] = "results" \/ (continueOnFail /\ settled[k] = "error")
    /\ pc \in {"loop", "await", "done", "thrown"}
    /\ pc = "loop" => i <= Len(items) /\ inflight = {}
    /\ pc = "await" => i < Len(items) /\ inflight # {}

\* C2: with continue-on-fail disabled, the first failure propagates at once: it is
\* the error the execution ends with, no later item is executed and no request is
\* issued for one, and nothing happens afterwards (no result list is returned); an
\* execution only ends with all items processed or aborted on that first failure,
\* and no step is taken from either of these states.
C2_Abort == [](C2_Ended) /\ [][pc \notin {"done", "thrown"}]_vars

C2_Witness ==
    /\ pc = "thrown"
    /\ Len(items) = 3
    /\ i = 1
    /\ settled = <<"results", "error", "no">>
    /\ executed = <<1, 1, 0>>
    /\ Len(httpLog) = 1

\* C3: items are processed strictly in order and one at a time: an item is entered
\* only when all earlier items are settled, each item is executed at most once and
\* exactly once in a finished batch, requests are issued in item order, and at most
\* one HTTP request is outstanding at any time.
C3_Sequential ==
    /\ Cardinality(inflight) <= 1
    /\ \A k \in 1..Len(items) :
        /\ executed[k] <= 1
        /\ executed[k] = 1 => \A j \in 1..(k - 1) : executed[j] = 1 /\ settled[j] # "no"
        /\ executed[k] = 0 => settled[k] = "no" /\ RequestsOf(k - 1) = {}
        /\ pc = "done" => executed[k] = 1
    /\ \A n \in 2..Len(httpLog) : httpLog[n - 1].item <= httpLog[n].item
    /\ \A req \in inflight : req.item = i /\ req.id = Len(httpLog) /\ settled[i + 1] = "no"
    /\ \A n \in 1..Len(outcomes) : outcomes[n] = "pending" <=> httpLog[n] \in inflight
    /\ pc = "await" <=> inflight # {}

C3_Witness ==
    /\ pc = "await"
    /\ i = 2
    /\ Len(items) = 3
    /\ Len(httpLog) = 4
    /\ httpLog[4] \in inflight
    /\ executed = <<1, 1, 1>>

----------------------------------------------------------------------------
(* Properties of the resource modules, on one item *)

Item == items[1]
PhonesIn(entries) == [k \in 1..Len(entries) |-> entries[k].phone]
NonEmpty(phones) == SelectSeq(phones, LAMBDA ph : ph # <<>>)

\* the raw phones the selected operation takes from the item, in the order of use
PhonesTaken ==
    CASE resource = "subscriber" -> <<Item.phone>>
      [] Selection \in {<<"message", "send">>, <<"message", "sendTransactional">>} ->
            <<Item.phone>>
      [] Selection = <<"message", "sendBulk">> -> PhonesIn(Item.entries)
      [] Selection \in {<<"customEvent", "sendBatch">>, <<"customAttribute", "setBatch">>} ->
            NonEmpty(PhonesIn(Item.entries))
      [] Selection \in {<<"customEvent", "send">>, <<"customAttribute", "set">>,
                        <<"customAttribute", "delete">>}
         /\ Item.identifierType = "phone" -> <<Item.phone>>
      [] resource = "ecommerce" /\ Item.identifierType = "phone" -> <<Item.phone>>
      [] OTHER -> <<>>

Malformed(raw) == ~isValidE164(formatPhoneNumber(raw))
InvalidPositions == {k \in 1..Len(PhonesTaken) : Malformed(PhonesTaken[k])}
FirstInvalidPhone == PhonesTaken[CHOOSE k \in InvalidPositions : \A j \in InvalidPositions : k <= j]

EmailIdentified ==
    /\ Item.identifierType = "email"
    /\ \/ Selection \in {<<"customEvent", "send">>, <<"customAttribute", "set">>,
                          <<"customAttribute", "delete">>}
       \/ resource = "ecommerce" /\ operation \in KnownOperations("ecommerce")

\* C4: an operation that takes a phone normalizes and validates it before any
\* request: a request is only issued when every phone taken is valid E.164 after
\* normalization; a malformed phone, anywhere in the list of a list operation,
\* fails the item with the validation error naming the first such phone and no
\* request is made; an operation identified by email never fails on the email,
\* whatever its value, and issues its request with the email as given.
C4_PhoneValidation ==
    executed = <<1>> =>
        /\ httpLog # <<>> => InvalidPositions = {}
        /\ InvalidPositions # {} =>
                /\ httpLog = <<>>
                /\ raised = <<[item |-> 0,
                               error |-> validatePhoneNumber(formatPhoneNumber(FirstInvalidPhone))[1]]>>
        /\ \A n \in 1..Len(raised) :
                (raised[n].error.name = "NodeOperationError" /\ raised[n].error # NoApiKey)
                    => InvalidPositions # {}
        /\ EmailIdentified =>
                /\ \A n \in 1..Len(raised) :
                        raised[n].error \in {NoApiKey, RangeError}
                        \/ raised[n].error.name = "NodeApiError"
                /\ (apiKey # "" /\ raised = <<>>) => Len(httpLog) = 1
                /\ (httpLog # <<>> /\ Item.email # JStr("")) =>
                        httpLog[1].options.body.user = JObj([email |-> Item.email])

C4_Witness ==
    /\ Selection = <<"message", "sendBulk">>
    /\ executed = <<1>>
    /\ Len(Item.entries) = 2
    /\ Item.entries[1].phone = <<"1", "-", "1">>
    /\ ~Malformed(Item.entries[1].phone)
    /\ Item.entries[2].phone = InvalidPhone
    /\ Len(raised) = 1
    /\ raised[1].error = validatePhoneNumber(InvalidPhone)[1]
    /\ httpLog = <<>>
    /\ apiKey # ""

\* C5: the claim as stated: in each of the ten resource modules an operation name
\* the module does not know fails the item with the error "Unknown operation: <name>"
\* and no request is made, whatever the other parameters of the item are, an
\* invalid or empty phone included.
C5_UnknownOperation ==
    (executed = <<1>> /\ resource \in Resources /\ operation \notin KnownOperations(resource)) =>
        /\ raised = <<[item |-> 0, error |-> UnknownOperation(operation)]>>
        /\ httpLog = <<>>

\* the calls the trigger's registration makes, beside those of the modules
RegistrationCalls ==
    {<<"GET", "/webhooks/wh-1", EmptyObj>>,
     <<"GET", "/webhooks", EmptyObj>>,
     <<"POST", "/webhooks", [url |-> JStr("https://host/webhook"), events |-> JArr(<<>>)]>>,
     <<"DELETE", "/webhooks/wh-1", EmptyObj>>}

\* C8: without an API key in the credentials (absent or empty) every transport
\* call fails with the error "No API key provided" and no request is issued,
\* whoever calls: a module's single request, the paginated fetch, the calls of the
\* trigger's registration; and that error is raised in no other case.
C8_NoApiKey ==
    /\ apiKey = "" =>
            /\ httpLog = <<>>
            /\ inflight = {}
            /\ (executed = <<1>> /\ executeResource(resource, operation, Item).tag # "throw")
                    => raised = <<[item |-> 0, error |-> NoApiKey]>>
            /\ \A c \in RegistrationCalls :
                    attentiveApiRequest(c[1], c[2], c[3], EmptyObj)
                        = [error |-> <<NoApiKey>>, options |-> <<>>]
    /\ apiKey # "" =>
            /\ \A n \in 1..Len(raised) : raised[n].error # NoApiKey
            /\ \A c \in RegistrationCalls :
                    attentiveApiRequest(c[1], c[2], c[3], EmptyObj).error = <<>>

C8_Witness ==
    /\ credentials = EmptyObj
    /\ Selection = <<"segment", "getAll">>
    /\ Item.returnAll
    /\ ~continueOnFail
    /\ pc = "thrown"
    /\ thrown = <<NoApiKey>>
    /\ httpLog = <<>>

\* C10: the claim as stated: every error the transport raises for a failed
\* request carries the message that handleApiError derives from the upstream
\* error (its status and message).
C10_Classified ==
    \A n \in 1..Len(raised) :
        raised[n].error.name = "NodeApiError"
            => raised[n].error.message = handleApiErrorMessage(raised[n].error.cause)

\* the body of a request, the entries of a batch body, the user objects in it
BodyOf(req) == IF "body" \in DOMAIN req.options THEN req.options.body ELSE EmptyObj
BatchOfUsers == Selection \in {<<"customEvent", "sendBatch">>, <<"customAttribute", "setBatch">>}
EntriesSent(req) ==
    IF ~BatchOfUsers THEN <<>>
    ELSE IF "events" \in Keys(BodyOf(req)) THEN BodyOf(req)["events"].arr
    ELSE BodyOf(req)["updates"].arr
UsersSent(req) ==
    {BodyOf(req)[k] : k \in Keys(BodyOf(req)) \cap {"user"}}
    \cup {e.obj["user"] : e \in {e \in Range(EntriesSent(req)) : "user" \in Keys(e.obj)}}
Identifiers(u) == Keys(u.obj) \cap {"phone", "email"}
AddsEmail ==
    /\ Selection \in {<<"subscriber", "subscribe">>, <<"subscriber", "update">>}
    /\ Truthy(Get(Item.options, "email"))

\* C12: the claim as stated: every user object sent, each entry of a batch
\* included, holds exactly one of phone and email, and no entry of a batch goes
\* without a user.
C12_ExactlyOne ==
    \A n \in 1..Len(httpLog) :
        /\ \A u \in UsersSent(httpLog[n]) : Cardinality(Identifiers(u)) = 1
        /\ \A e \in Range(EntriesSent(httpLog[n])) : "user" \in Keys(e.obj)

\* What the modules send: a user object sent holds nothing but identifiers and at least
\* one; it holds both the phone and an email exactly in subscriber subscribe and
\* update with an email among the additional fields; an entry of a batch carries
\* the phone alone when it has a phone, else the email alone when it has one, and
\* no user object when it has neither; an operation identified by an empty email
\* sends no user object.
SentIdentifiers ==
    \A n \in 1..Len(httpLog) :
        /\ \A u \in UsersSent(httpLog[n]) :
            /\ Identifiers(u) = Keys(u.obj)
            /\ Identifiers(u) # {}
            /\ Identifiers(u) = {"phone", "email"} <=> AddsEmail
            /\ AddsEmail => /\ u.obj["email"] = Item.options["email"]
                            /\ u.obj["phone"] = JStr(Str(formatPhoneNumber(Item.phone)))
        /\ BatchOfUsers =>
            /\ Len(EntriesSent(httpLog[n])) = Len(Item.entries)
            /\ \A k \in 1..Len(Item.entries) :
                LET given == Item.entries[k]
                    sent == EntriesSent(httpLog[n])[k].obj
                IN  /\ given.phone # <<>>
                        => sent["user"] = JObj([phone |-> JStr(Str(formatPhoneNumber(given.phone)))])
                    /\ (given.phone = <<>> /\ given.email # JStr(""))
                        => sent["user"] = JObj([email |-> given.email])
                    /\ (given.phone = <<>> /\ given.email = JStr(""))
                        => "user" \notin Keys(sent)
        /\ (EmailIdentified /\ Item.email = JStr("")) => UsersSent(httpLog[n]) = {}

\* the requests that write: a POST, PATCH or DELETE sent with a body
Writes(log) ==
    {n \in 1..Len(log) : /\ log[n].options.method \in {"POST", "PATCH", "DELETE"}
                          /\ "body" \in DOMAIN log[n].options}

\* C13: the body of every write request is pruned: pruning it again changes
\* nothing, so it holds no entry that is absent, null, an empty string, an empty
\* list or an empty nested mapping.
C13_Pruned ==
    \A n \in Writes(httpLog) : cleanObject(BodyOf(httpLog[n])) = BodyOf(httpLog[n])

\* the delete-style operations and the name each gives to the entity's id
DeleteStyle == {<<"segment", "delete">>, <<"webhook", "delete">>, <<"customAttribute", "delete">>}
EntityId ==
    CASE resource = "segment" -> "segmentId"
      [] resource = "webhook" -> "webhookId"
      [] OTHER -> "attributeKey"
IsSuccessRecord(r) ==
    /\ DOMAIN r = {"json"}
    /\ "success" \in DOMAIN r.json
    /\ r.json["success"] = JBool(TRUE)

\* C14: a delete-style operation whose DELETE request succeeded has returned
\* exactly one record, {success: true, <entityId>}; one whose DELETE request
\* failed has returned no success record.
C14_SuccessRecord ==
    (Selection \in DeleteStyle /\ pc \in {"done", "thrown"} /\ httpLog # <<>>) =>
        IF settled[1] = "results"
        THEN /\ Len(returnData) = 1
             /\ IsSuccessRecord(returnData[1])
             /\ DOMAIN returnData[1].json = {"success", EntityId}
        ELSE \A k \in 1..Len(returnData) : ~IsSuccessRecord(returnData[k])

\* the operations that take the occurredAt option, and what the item gives for it
TimestampTaken ==
    \/ Selection = <<"customEvent", "send">>
    \/ resource = "ecommerce" /\ operation \in KnownOperations("ecommerce")
OccurredAt == Get(Item.options, "occurredAt")
Unparseable == Truthy(OccurredAt) /\ toISOString(OccurredAt.str) = <<>>

\* C21: the claim as stated: an operation that takes a timestamp, its phone being
\* valid, fails with a validation error (a NodeOperationError) and issues no
\* request when the timestamp is given but does not parse as a date; it sends the
\* current instant when none is given, and the ISO-8601 form of the given one when
\* it parses.
C21_ValidationError ==
    (executed = <<1>> /\ TimestampTaken /\ InvalidPositions = {}) =>
        /\ Unparseable =>
                /\ httpLog = <<>>
                /\ Len(raised) = 1
                /\ raised[1].error.name = "NodeOperationError"
        /\ (httpLog # <<>> /\ ~Truthy(OccurredAt)) =>
                BodyOf(httpLog[1])["occurredAt"] = JStr(Now)
        /\ (httpLog # <<>> /\ Truthy(OccurredAt)) =>
                BodyOf(httpLog[1])["occurredAt"] = JStr(toISOString(OccurredAt.str)[1])

\* C24: a list operation with the return-all flag set issues no request of its
\* own: every request is one of the paginated fetch, with limit 100 and the offset
\* of its page; without the flag it issues exactly one request, whose query
\* carries the item's limit and no offset, and returns the records of the
\* response's named array, or no record when the response has no such field.
C24_ListOperation ==
    (Selection \in ListSelections /\ executed = <<1>>) =>
        IF Item.returnAll
        THEN \A n \in 1..Len(httpLog) :
                /\ httpLog[n].options.method = "GET"
                /\ Get(httpLog[n].options.qs, "limit") = JNum(limit)
                /\ Get(httpLog[n].options.qs, "offset") = JNum((n - 1) * limit)
        ELSE /\ Len(httpLog) = IF apiKey = "" THEN 0 ELSE 1
             /\ \A n \in 1..Len(httpLog) :
                    /\ httpLog[n].options.method = "GET"
                    /\ Get(httpLog[n].options.qs, "limit") = JNum(Item.limit)
                    /\ "offset" \notin Keys(httpLog[n].options.qs)
                    /\ "body" \notin DOMAIN httpLog[n].options
             /\ settled = <<"results">> =>
                    returnData = IF server.hasKey
                                 THEN [k \in 1..server.size |-> [json |-> JObj([id |-> JNum(k)])]]
                                 ELSE <<>>

C24_Witness ==
    /\ Selection = <<"journey", "getAll">>
    /\ ~Item.returnAll
    /\ server = Keyless
    /\ settled = <<"results">>
    /\ Len(httpLog) = 1
    /\ httpLog[1].options.qs = [limit |-> JNum(50), status |-> JStr("active")]
    /\ returnData = <<>>

\* C25: the claim as stated: every record of the result list carries the index of
\* the item that produced it, the records of a success as well as the error
\* records: each has a pairedItem naming an item already processed, in the order
\* of the items, and the error records name exactly the items that failed.
C25_Tagged ==
    /\ \A k \in 1..Len(returnData) :
            /\ "pairedItem" \in DOMAIN returnData[k]
            /\ returnData[k].pairedItem.item \in 0..(Len(items) - 1)
            /\ settled[returnData[k].pairedItem.item + 1] # "no"
            /\ "error" \in DOMAIN returnData[k].json
                    <=> settled[returnData[k].pairedItem.item + 1] = "error"
    /\ \A k \in 2..Len(returnData) :
            ("pairedItem" \in DOMAIN returnData[k - 1] /\ "pairedItem" \in DOMAIN returnData[k])
                => returnData[k - 1].pairedItem.item <= returnData[k].pairedItem.item

\* a step extends the result list, and only when it completes the current item:
\* with the records of that item when it succeeded, with its error record alone
\* when it failed and failures are tolerated, with nothing when the failure aborts
C26_Step ==
    /\ Len(returnData') >= Len(returnData)
    /\ SubSeq(returnData', 1, Len(returnData)) = returnData
    /\ i' >= i
    /\ returnData' # returnData => (i' = i + 1 /\ settled'[i + 1] # "no" /\ settled[i + 1] = "no")
    /\ raised' # raised =>
            returnData' = IF continueOnFail
                          THEN Append(returnData, ErrorRecord(raised'[Len(raised')].error, i))
                          ELSE returnData
    /\ (pc = "await" /\ pc' = "await") => returnData' = returnData

\* C26: the result list only grows: every step leaves the records already there
\* in place and in order; records are appended item by item in the order of the
\* items; and a failure on an item, in the middle of a paginated fetch included,
\* leaves the records of the earlier items as they were and adds none of the
\* records fetched for the failed item.
C26_Monotonic == [][C26_Step]_vars

C26_Witness ==
    /\ Selection \in ListSelections
    /\ Len(items) = 2
    /\ items[1].returnAll /\ items[2].returnAll
    /\ continueOnFail
    /\ pc = "done"
    /\ outcomes = <<"ok", "ok", "ok", "failed">>
    /\ settled = <<"results", "error">>
    /\ Len(returnData) = 102
    /\ IsErrorRecord(returnData[102])
    /\ \A k \in 1..101 : returnData[k] = [json |-> JObj([id |-> JNum(k)])]

----------------------------------------------------------------------------
(* Properties of the transport, on batches *)

FailedRequestsOf(k) == {n \in RequestsOf(k) : outcomes[n] = "failed"}
ApiErrorsOf(k) == {n \in 1..Len(raised) : raised[n].item = k /\ raised[n].error.name = "NodeApiError"}

C9_Issued ==
    /\ \A m, n \in 1..Len(httpLog) :
            (m < n /\ httpLog[m].item = httpLog[n].item)
                => /\ httpLog[m].options # httpLog[n].options
                   /\ outcomes[m] = "ok"
    /\ \A k \in 0..(Len(items) - 1) :
        /\ Cardinality(FailedRequestsOf(k)) <= 1
        /\ Cardinality(FailedRequestsOf(k)) = Cardinality(ApiErrorsOf(k))
        /\ FailedRequestsOf(k) # {} => settled[k + 1] = "error"

\* a step in which a request fails raises the wrapped upstream error for the item
\* of the request and issues no request
C9_Step ==
    /\ Len(httpLog') <= Len(httpLog) + 1
    /\ \A n \in 1..Len(outcomes) :
            (outcomes[n] = "pending" /\ outcomes'[n] = "failed") =>
                /\ httpLog' = httpLog
                /\ inflight' = {}
                /\ Len(raised') = Len(raised) + 1
                /\ raised'[Len(raised')].item = httpLog[n].item
                /\ raised'[Len(raised')].error \in NodeApiErrors(raised'[Len(raised')].error.cause)
                /\ settled'[httpLog[n].item + 1] = "error"

\* C9: nothing is retried: a transport call issues at most one request; a failed
\* request raises the wrapped upstream error and is not issued again, by the
\* transport, the paginated fetch or a module: no request of an item follows a
\* failed one, no request is issued twice for an item, and an item that fails
\* upstream has exactly one failed request.
C9_NoRetry == [](C9_Issued) /\ [][C9_Step]_vars

C9_Witness ==
    /\ pc = "done"
    /\ Selection = <<"segment", "getAll">>
    /\ Len(items) = 2
    /\ items[1].returnAll
    /\ outcomes = <<"ok", "failed", "ok">>
    /\ settled = <<"error", "results">>
    /\ Len(raised) = 1
    /\ raised[1].error.cause = RawError(429)
    /\ ~items[2].returnAll
    /\ IsErrorRecord(returnData[1])
    /\ Len(returnData) = 1 + items[2].limit

----------------------------------------------------------------------------
(* Properties of the paginated fetch *)

\* the server holds as many records as it declares and honours limit and offset
HonestServer ==
    /\ server.size = server.total
    /\ server.cap = limit
    /\ server.honoursOffset
    /\ server.hasKey

CeilPages(t) == (t + limit - 1) \div limit
RecordsUpTo(t) == [k \in 1..t |-> [json |-> JObj([id |-> JNum(k)])]]
OffsetsInSteps ==
    \A n \in 1..Len(httpLog) :
        /\ httpLog[n].options.qs["offset"] = JNum((n - 1) * limit)
        /\ httpLog[n].options.qs["limit"] = JNum(limit)
        /\ httpLog[n].options.method = "GET"

\* C6: the claim as stated: with a total of T on a server that honours limit and
\* offset the fetch issues exactly ceil(T/100) requests, at offsets 0, 100, 200,
\* ..., and returns the T records.
C6_CeilPages ==
    (HonestServer /\ pc = "done" /\ raised = <<>>) =>
        /\ Len(httpLog) = CeilPages(server.total)
        /\ OffsetsInSteps
        /\ returnData = RecordsUpTo(server.total)

\* C6, amended: with a total of T >= 1 (within the cap on iterations) the fetch
\* issues exactly ceil(T/100) requests, at offsets 0, 100, 200, ... with limit
\* 100, and returns the T records in order; with a total of 0 it issues exactly
\* one request, at offset 0, and returns no record.  It never issues more.
C6_Pages ==
    HonestServer =>
        LET expected == IF server.total = 0 THEN 1 ELSE CeilPages(server.total)
        IN  /\ Len(httpLog) <= expected
            /\ OffsetsInSteps
            /\ (pc = "done" /\ raised = <<>>) =>
                    /\ Len(httpLog) = expected
                    /\ returnData = RecordsUpTo(server.total)

C6_Witness ==
    /\ HonestServer
    /\ server.total = 250
    /\ pc = "done"
    /\ Len(httpLog) = 3
    /\ httpLog[3].options.qs["offset"] = JNum(200)
    /\ outcomes = <<"ok", "ok", "ok">>
    /\ Len(returnData) = 250

\* the step in which the last request of a paginated fetch is answered
Answered ==
    /\ pc = "await"
    /\ call.tag = "requestAll"
    /\ Len(outcomes') >= Len(httpLog)
    /\ outcomes'[Len(httpLog)] = "ok"

\* when a page is answered, the fetch stops if the response declares no total (or
\* zero) or as many records as the total have been accumulated, and at the 1000th
\* request; otherwise it issues the next request, 100 further on
C22_Step ==
    Answered =>
        LET last == httpLog[Len(httpLog)]
            response == ListResponse(server, call.dataKey, last.options.qs)
            received == Len(call.returnData)
                        + (IF call.dataKey \in Keys(response)
                           THEN Len(response[call.dataKey].arr) ELSE 0)
            declared == IF "meta" \in Keys(response) THEN response["meta"].obj["total"].num ELSE 0
        IN  IF declared = 0 \/ received >= declared \/ Len(httpLog) >= 1000
            THEN /\ httpLog' = httpLog
                 /\ call' = NoCall
                 /\ pc' = "loop"
                 /\ Len(returnData') = Len(returnData) + received
            ELSE /\ Len(httpLog') = Len(httpLog) + 1
                 /\ SubSeq(httpLog', 1, Len(httpLog)) = httpLog
                 /\ httpLog'[Len(httpLog')].options.qs["offset"]
                        = JNum(last.options.qs["offset"].num + 100)
                 /\ pc' = "await"
                 /\ returnData' = returnData

\* C22: the paginated fetch stops exactly at the first response after which the
\* declared total is absent or zero, or the accumulated records have reached it:
\* no request follows that response, and a request with the offset increased by
\* 100 follows every other response, until the cap on iterations.
C22_StopRule == [][C22_Step /\ (call.tag # "requestAll" => httpLog' = httpLog \/ httpLog = <<>>)]_vars

C22_Witness ==
    /\ HonestServer
    /\ server.total = 150
    /\ pc = "done"
    /\ outcomes = <<"ok", "ok">>
    /\ httpLog[2].options.qs["offset"] = JNum(100)
    /\ Len(returnData) = 150

\* the server honours limit and offset and declares the true total, but may cap
\* its pages below the limit asked for
TruthfulServer ==
    /\ server.size = server.total
    /\ server.cap <= limit
    /\ server.honoursOffset
    /\ server.hasKey

\* C23: the claim as stated: from a server that honours offset and limit and
\* declares the true total, with pages that may be shorter than 100 records, the
\* fetch returns every record exactly once: the records accumulated are at every
\* moment the first ones of the collection, none skipped and none twice (the list
\* is only appended to, so a gap is never filled), and the result is all of them.
C23_EveryRecordOnce ==
    TruthfulServer =>
        /\ call.tag = "requestAll" =>
                \A k \in 1..Len(call.returnData) : call.returnData[k] = JObj([id |-> JNum(k)])
        /\ (pc = "done" /\ raised = <<>>) => returnData = RecordsUpTo(server.total)

\* the identifiers of the records the server has handed out over the requests made
ReceivedIds ==
    IF ~server.hasKey THEN {}
    ELSE LET pages == IF Len(httpLog) < server.size \div limit + 1
                      THEN Len(httpLog) ELSE server.size \div limit + 1
         IN  UNION {{r.obj.id.num : r \in Range(Page(server, (n - 1) * limit, limit))} :
                        n \in 1..pages}

\* the fetch that ran into the limit on iterations returned, as an ordinary result,
\* the records received
C7_AtCap ==
    (pc = "done" /\ Len(httpLog) = 1000) =>
        /\ raised = <<>>
        /\ thrown = <<>>
        /\ settled = <<"results">>
        /\ server.honoursOffset =>
            /\ Len(returnData) = Cardinality(ReceivedIds)
            /\ \A k \in 1..Len(returnData) :
                /\ DOMAIN returnData[k] = {"json"}
                /\ returnData[k].json.obj.id.num \in ReceivedIds
                /\ k > 1 => returnData[k - 1].json.obj.id.num < returnData[k].json.obj.id.num

\* below the limit the fetch only ends by its stop rule: the server declared no
\* total, or as many records as the total have arrived
C7_BelowCap ==
    (pc = "done" /\ raised = <<>> /\ Len(httpLog) < 1000) =>
        (server.total <= 0 \/ Len(returnData) >= server.total)

\* C7: the paginated fetch ends on every server that keeps answering, whatever
\* the answers are; it never issues more than 1000 requests; and when it stops at
\* that limit, and only then, it returns short of the declared total: the
\* records accumulated so far, as an ordinary result without an error.
C7_Terminates ==
    /\ <>(pc \in {"done", "thrown"})
    /\ [](Len(httpLog) <= 1000)
    /\ [](C7_AtCap)
    /\ [](C7_BelowCap)

C7_Witness ==
    /\ pc = "done"
    /\ Len(httpLog) = 1000
    /\ server.cap = 50
    /\ Len(returnData) = 70
    /\ raised = <<>>

----------------------------------------------------------------------------
(* The utilities and handleApiError, each called on its own *)

nodeVars == <<items, resource, operation, continueOnFail, credentials, server, pc, i,
              returnData, thrown, call, inflight, httpLog, outcomes, executed, settled,
              raised>>

\* no execution of the node is under way
InitIdle ==
    /\ items = <<>>
    /\ resource = "subscriber"
    /\ operation = "get"
    /\ continueOnFail = FALSE
    /\ credentials = [apiKey |-> "key-1"]
    /\ server = Honest(0, {})
    /\ pc = "idle"
    /\ i = 0
    /\ returnData = <<>>
    /\ thrown = <<>>
    /\ call = NoCall
    /\ inflight = {}
    /\ httpLog = <<>>
    /\ outcomes = <<>>
    /\ executed = <<>>
    /\ settled = <<>>
    /\ raised = <<>>

Returns(v) == <<[returns |-> v]>>
Throws(e) == <<[throws |-> e]>>
UtilCall(fn, arg) == [fn |-> fn, arg |-> arg]

\* the errors handleApiError may be handed: with or without a status, with a
\* message, an empty one or none
RawErrors ==
    {st @@ m : st \in {<<>>} \cup {[statusCode |-> c] : c \in Statuses \cup {200, 418}},
               m \in {<<>>, [message |-> ""], [message |-> "upstream says no"]}}

\* handleApiError(error, node) runs to its end: the throw statement
CallHandleApiError ==
    /\ utilCall.fn = "handleApiError"
    /\ utilResult = <<>>
    /\ utilResult' = Throws(handleApiError(utilCall.arg))
    /\ UNCHANGED <<nodeVars, utilCall, triggerVars>>

\* C11: the claim as stated: handleApiError always throws, and its message is
\* fixed by the status: 400 'Bad Request...', 401 'Unauthorized: Invalid API key',
\* 403 'Forbidden: Insufficient permissions', 404 'Not Found...', 429 'Rate
\* Limited...', 500 'Server Error...'; with any other status, or none, it is the
\* raw error's message, unchanged.
C11_PassThrough ==
    (utilCall.fn = "handleApiError" /\ utilResult # <<>>) =>
        LET raw == utilCall.arg
            status == IF "statusCode" \in DOMAIN raw THEN raw.statusCode ELSE 0
            rawMessage == IF "message" \in DOMAIN raw THEN raw.message ELSE ""
        IN  /\ DOMAIN utilResult[1] = {"throws"}
            /\ status = 400 => utilResult[1].throws.message
                                    \in {"Bad Request: " \o m : m \in {rawMessage, "Unknown error occurred"}}
            /\ status = 401 => utilResult[1].throws.message = "Unauthorized: Invalid API key"
            /\ status = 403 => utilResult[1].throws.message = "Forbidden: Insufficient permissions"
            /\ status = 404 => utilResult[1].throws.message = "Not Found: Resource does not exist"
            /\ status = 429 => utilResult[1].throws.message
                                    = "Rate Limited: Too many requests. Please try again later."
            /\ status = 500 => utilResult[1].throws.message
                                    = "Server Error: Attentive API is experiencing issues"
            /\ status \notin {400, 401, 403, 404, 429, 500}
                    => utilResult[1].throws.message = rawMessage

\* C11, amended: handleApiError always throws (a NodeOperationError), and its
\* message is fixed by the status as above, where the raw message stands for
\* 'Unknown error occurred' when the raw error has no message or an empty one:
\* 400 gives 'Bad Request: ' followed by it, and any other status, or none, gives
\* it alone.
C11_Classify ==
    (utilCall.fn = "handleApiError" /\ utilResult # <<>>) =>
        LET raw == utilCall.arg
            status == IF "statusCode" \in DOMAIN raw THEN raw.statusCode ELSE 0
            given == IF "message" \in DOMAIN raw /\ raw.message # ""
                     THEN raw.message ELSE "Unknown error occurred"
        IN  /\ DOMAIN utilResult[1] = {"throws"}
            /\ utilResult[1].throws.name = "NodeOperationError"
            /\ status = 400 => utilResult[1].throws.message = "Bad Request: " \o given
            /\ status = 401 => utilResult[1].throws.message = "Unauthorized: Invalid API key"
            /\ status = 403 => utilResult[1].throws.message = "Forbidden: Insufficient permissions"
            /\ status = 404 => utilResult[1].throws.message = "Not Found: Resource does not exist"
            /\ status = 429 => utilResult[1].throws.message
                                    = "Rate Limited: Too many requests. Please try again later."
            /\ status = 500 => utilResult[1].throws.message
                                    = "Server Error: Attentive API is experiencing issues"
            /\ status \notin {400, 401, 403, 404, 429, 500}
                    => utilResult[1].throws.message = given

C11_Witness ==
    /\ utilCall = UtilCall("handleApiError", [statusCode |-> 418, message |-> ""])
    /\ utilResult = Throws([name |-> "NodeOperationError", message |-> "Unknown error occurred"])

\* formatPhoneNumber(phone) returns
CallFormatPhoneNumber ==
    /\ utilCall.fn = "formatPhoneNumber"
    /\ utilResult = <<>>
    /\ utilResult' = Returns(formatPhoneNumber(utilCall.arg))
    /\ UNCHANGED <<nodeVars, utilCall, triggerVars>>

\* validatePhoneNumber(phone, node) throws or returns nothing
CallValidatePhoneNumber ==
    /\ utilCall.fn = "validatePhoneNumber"
    /\ utilResult = <<>>
    /\ utilResult' = IF validatePhoneNumber(utilCall.arg) # <<>>
                     THEN Throws(validatePhoneNumber(utilCall.arg)[1])
                     ELSE Returns(JUndef)
    /\ UNCHANGED <<nodeVars, utilCall, triggerVars>>

Formatted == utilCall.fn = "formatPhoneNumber" /\ utilResult # <<>>
DigitsOf(phone) == SelectSeq(phone, LAMBDA c : c \in Digits)

\* C16: the claim as stated: formatPhoneNumber returns, for a non-empty input, one
\* leading '+' followed by the digits of the input and nothing else, a '+' that is
\* not leading being stripped; the empty string for the empty input; and
\* formatting the result again changes nothing.
C16_LeadingPlus ==
    Formatted =>
        /\ utilResult[1] = [returns |-> IF utilCall.arg = <<>> THEN <<>>
                                        ELSE <<"+">> \o DigitsOf(utilCall.arg)]
        /\ formatPhoneNumber(utilResult[1].returns) = utilResult[1].returns

\* C16, amended: formatPhoneNumber returns, for a non-empty input, the digits and
\* the '+' signs of the input in their order, every '+' kept wherever it stands,
\* behind one added '+' when these do not begin with a '+'; the result begins with
\* '+' and equals the claimed one exactly when the input has no '+' past its first
\* digit or '+'; the empty string for the empty input; and formatting the result
\* again changes nothing.
C16_KeepsPlus ==
    Formatted =>
        LET kept == SelectSeq(utilCall.arg, LAMBDA c : c \in Digits \cup {"+"})
            out == utilResult[1].returns
        IN  /\ DOMAIN utilResult[1] = {"returns"}
            /\ utilCall.arg = <<>> => out = <<>>
            /\ utilCall.arg # <<>> =>
                    /\ out # <<>> /\ out[1] = "+"
                    /\ out = IF kept # <<>> /\ kept[1] = "+" THEN kept ELSE <<"+">> \o kept
                    /\ out = <<"+">> \o DigitsOf(utilCall.arg)
                            <=> \A k \in 2..Len(kept) : kept[k] # "+"
            /\ formatPhoneNumber(out) = out

C16_Witness ==
    /\ utilCall = UtilCall("formatPhoneNumber", <<"1", "+", "1">>)
    /\ utilResult = Returns(<<"+", "1", "+", "1">>)

\* C17: the claim as stated: an operation that takes a phone fails on it exactly
\* when the normalized phone is not E.164, and the validation error names the raw
\* phone as supplied for the item, not its normalized form.
C17_NamesRawInput ==
    executed = <<1>> =>
        /\ InvalidPositions # {} <=>
                \E n \in 1..Len(raised) :
                    /\ raised[n].error.name = "NodeOperationError"
                    /\ raised[n].error # NoApiKey
        /\ InvalidPositions # {} =>
                raised = <<[item |-> 0, error |-> validatePhoneNumber(FirstInvalidPhone)[1]]>>

\* cleanObject(obj) returns
CallCleanObject ==
    /\ utilCall.fn = "cleanObject"
    /\ utilResult = <<>>
    /\ utilResult' = Returns(cleanObject(utilCall.arg))
    /\ UNCHANGED <<nodeVars, utilCall, triggerVars>>

\* the objects cleanObject is called on: every kind of value under one key, beside
\* a nested object whose own entries and nested object are empty or not
Leaves ==
    {JUndef, JNull, JStr(""), JStr("value"), JNum(0), JBool(FALSE), JArr(<<>>),
     JArr(<<JObj(EmptyObj), JStr("")>>)}
Innermost == {EmptyObj, [c |-> JUndef], [c |-> JStr("keep")]}
Nested ==
    {b @@ n : b \in {EmptyObj, [b |-> JUndef], [b |-> JStr("keep")], [b |-> JNum(0)]},
              n \in {EmptyObj} \cup {[n |-> JObj(o)] : o \in Innermost}}
Objects ==
    {a @@ n : a \in {EmptyObj} \cup {[a |-> v] : v \in Leaves},
              n \in {EmptyObj} \cup {[nested |-> JObj(o)] : o \in Nested}}

\* a value that is dropped: absent, null, the empty string, an empty list, or a
\* mapping all of whose entries are dropped
RECURSIVE Dropped(_)
Dropped(v) ==
    \/ IsUndef(v) \/ IsNull(v) \/ v = JStr("") \/ v = JArr(<<>>)
    \/ IsObj(v) /\ \A k \in Keys(v.obj) : Dropped(v.obj[k])

\* r keeps exactly the entries of m that are not dropped, nested mappings in the
\* same way and every other value as it is
RECURSIVE PruneOf(_, _)
PruneOf(r, m) ==
    /\ Keys(r) = {k \in Keys(m) : ~Dropped(m[k])}
    /\ \A k \in Keys(r) :
            IF IsObj(m[k]) THEN IsObj(r[k]) /\ PruneOf(r[k].obj, m[k].obj)
            ELSE r[k] = m[k]

\* no entry that is a mapping is empty, at any depth
RECURSIVE NoEmptyMapping(_)
NoEmptyMapping(r) ==
    \A k \in Keys(r) : IsObj(r[k]) => (Keys(r[k].obj) # {} /\ NoEmptyMapping(r[k].obj))

\* C18: cleanObject(m) keeps exactly the entries of m whose value is not absent,
\* not null, not the empty string, not an empty list and not a nested mapping that
\* prunes to empty: 0 and false stay, a non-empty list stays as it is, elements
\* unpruned, a nested mapping is replaced by its pruned form, and no empty nested
\* mapping remains at any depth.
C18_Prune ==
    (utilCall.fn = "cleanObject" /\ utilResult # <<>>) =>
        /\ DOMAIN utilResult[1] = {"returns"}
        /\ PruneOf(utilResult[1].returns, utilCall.arg)
        /\ NoEmptyMapping(utilResult[1].returns)

C18_Witness ==
    /\ utilCall = UtilCall("cleanObject",
                           [a |-> JNum(0),
                            nested |-> JObj([b |-> JUndef, n |-> JObj([c |-> JUndef])])])
    /\ utilResult = Returns([a |-> JNum(0)])

\* parseCustomAttributes(attributesInput) returns
CallParseCustomAttributes ==
    /\ utilCall.fn = "parseCustomAttributes"
    /\ utilResult = <<>>
    /\ utilResult' = Returns(parseCustomAttributes(utilCall.arg))
    /\ UNCHANGED <<nodeVars, utilCall, triggerVars>>

\* the inputs of parseCustomAttributes: none, null, no list, and the lists of up to
\* MaxEntries pairs with a key, an empty key or none and a value, null, an empty
\* one or none
Pairs ==
    {JObj(k @@ v) : k \in {EmptyObj, [key |-> JStr("")], [key |-> JStr("firstName")],
                           [key |-> JStr("lastName")]},
                    v \in {EmptyObj, [value |-> JUndef], [value |-> JNull], [value |-> JStr("")],
                           [value |-> JStr("John")], [value |-> JStr("Doe")]}}
AttributeInputs ==
    {JUndef, JNull, JObj(EmptyObj)}
    \cup {JObj([attributes |-> JArr(l)]) : l \in UNION {[1..n -> Pairs] : n \in 0..MaxEntries}}

\* the pairs of an input, and whether a pair counts: a non-empty key and a value
\* that is present
PairsOf(input) ==
    IF Truthy(input) /\ IsArr(Get(input.obj, "attributes")) THEN input.obj["attributes"].arr
    ELSE <<>>
Counts(pair) ==
    /\ "key" \in Keys(pair.obj) /\ pair.obj["key"] # JStr("")
    /\ "value" \in Keys(pair.obj) /\ pair.obj["value"] # JUndef

\* C19: parseCustomAttributes returns the mapping whose keys are the keys of the
\* pairs with a non-empty key and a present value, each bound to the value of the
\* last such pair with that key; the other pairs add nothing, and an absent or
\* empty input gives the empty mapping.
C19_LastWins ==
    (utilCall.fn = "parseCustomAttributes" /\ utilResult # <<>>) =>
        LET pairs == PairsOf(utilCall.arg)
            counted == {n \in 1..Len(pairs) : Counts(pairs[n])}
            out == utilResult[1].returns
        IN  /\ DOMAIN utilResult[1] = {"returns"}
            /\ Keys(out) = {pairs[n].obj["key"].str : n \in counted}
            /\ \A n \in counted :
                    (\A m \in counted : pairs[m].obj["key"] = pairs[n].obj["key"] => m <= n)
                        => out[pairs[n].obj["key"].str] = pairs[n].obj["value"]
            /\ pairs = <<>> => out = EmptyObj

C19_Witness ==
    /\ utilCall = UtilCall("parseCustomAttributes",
                           JObj([attributes |->
                                    JArr(<<JObj([key |-> JStr("firstName"), value |-> JStr("John")]),
                                           JObj([key |-> JStr("firstName"), value |-> JStr("Doe")])>>)]))
    /\ utilResult = Returns([firstName |-> JStr("Doe")])

\* parseProductItems(itemsInput) returns
CallParseProductItems ==
    /\ utilCall.fn = "parseProductItems"
    /\ utilResult = <<>>
    /\ utilResult' = Returns(parseProductItems(utilCall.arg))
    /\ UNCHANGED <<nodeVars, utilCall, triggerVars>>

\* the inputs of parseProductItems: none, null, no list, and the lists of up to
\* MaxEntries items with a quantity that parses (0 included) or does not, and a
\* category that is a string, a list or missing
RawItems ==
    {JObj([productId |-> JStr(id), name |-> JStr("Test Product"),
           price |-> <<"2", "9", ".", "9", "9">>, quantity |-> q] @@ c) :
        id \in {"SKU123", "SKU456"},
        q \in {<<"2">>, <<"0">>, <<"1", "0">>, <<"2", "x">>, <<"x">>, <<>>},
        c \in {EmptyObj, [category |-> JStr("Electronics")],
               [category |-> JArr(<<JStr("Home"), JStr("Garden")>>)]}}
ProductInputs ==
    {JUndef, JNull, JObj(EmptyObj)}
    \cup {JObj([items |-> JArr(l)]) : l \in UNION {[1..n -> RawItems] : n \in 0..MaxEntries}}

RawItemsOf(input) ==
    IF Truthy(input) /\ IsArr(Get(input.obj, "items")) THEN input.obj["items"].arr ELSE <<>>

\* C20: the claim as stated: parseProductItems returns one product item per raw
\* item, in the same order; the quantity of each is the integer its raw quantity
\* parses to whenever it parses, 0 included, and 1 only when it does not parse;
\* the category, when there is one, is a list, a bare string being wrapped.
C20_Quantity ==
    (utilCall.fn = "parseProductItems" /\ utilResult # <<>>) =>
        LET raw == RawItemsOf(utilCall.arg)
            out == utilResult[1].returns
        IN  /\ Len(out) = Len(raw)
            /\ \A k \in 1..Len(raw) :
                    /\ out[k].obj["productId"] = raw[k].obj["productId"]
                    /\ out[k].obj["quantity"] = IF IsNaN(ParseInt(raw[k].obj["quantity"]))
                                                THEN JNum(1)
                                                ELSE ParseInt(raw[k].obj["quantity"])
                    /\ "category" \in Keys(out[k].obj) <=> "category" \in Keys(raw[k].obj)
                    /\ "category" \in Keys(out[k].obj) =>
                            /\ IsArr(out[k].obj["category"])
                            /\ out[k].obj["category"] = IF IsArr(raw[k].obj["category"])
                                                        THEN raw[k].obj["category"]
                                                        ELSE JArr(<<raw[k].obj["category"]>>)

\* attentiveApiRequest(method, endpoint, body, query) up to its await: it throws,
\* or hands its options to helpers.request
CallAttentiveApiRequest ==
    /\ utilCall.fn = "attentiveApiRequest"
    /\ utilResult = <<>>
    /\ LET sent == attentiveApiRequest(utilCall.arg.method, utilCall.arg.endpoint,
                                       utilCall.arg.body, utilCall.arg.query)
       IN  utilResult' = IF sent.error # <<>> THEN Throws(sent.error[1])
                         ELSE Returns(sent.options[1])
    /\ UNCHANGED <<nodeVars, utilCall, triggerVars>>

\* the calls of attentiveApiRequest: each method with an empty and a non-empty
\* body and query
SendArguments ==
    [method : {"GET", "POST", "PUT", "PATCH", "DELETE"},
     endpoint : {"/segments"},
     body : {EmptyObj, [name |-> JStr("n")], [name |-> JStr("")]},
     query : {EmptyObj, [limit |-> JNum(50)], [limit |-> JNum(100), offset |-> JNum(0)]}]

\* C27: attentiveApiRequest attaches a body to the request exactly when the
\* method is not GET and the body has an entry, and then it is the body passed; a
\* GET never carries a body; the query is always passed as the query parameters.
C27_BodyAttached ==
    (utilCall.fn = "attentiveApiRequest" /\ utilResult # <<>>) =>
        /\ DOMAIN utilResult[1] = {"returns"}
        /\ "body" \in DOMAIN utilResult[1].returns
                <=> (utilCall.arg.method # "GET" /\ utilCall.arg.body # EmptyObj)
        /\ "body" \in DOMAIN utilResult[1].returns
                => utilResult[1].returns.body = utilCall.arg.body
        /\ utilResult[1].returns.method = utilCall.arg.method
        /\ utilResult[1].returns.qs = utilCall.arg.query

C27_Witness ==
    /\ utilCall = UtilCall("attentiveApiRequest",
                           [method |-> "GET", endpoint |-> "/segments",
                            body |-> [name |-> JStr("n")], query |-> [limit |-> JNum(50)]])
    /\ utilResult # <<>>
    /\ DOMAIN utilResult[1].returns = {"method", "uri", "headers", "qs", "json"}
    /\ utilResult[1].returns.qs = [limit |-> JNum(50)]

\* the calls made of the utilities
UtilCalls ==
    {UtilCall("handleApiError", raw) : raw \in RawErrors}
    \cup {UtilCall("formatPhoneNumber", ph) : ph \in Phones}
    \cup {UtilCall("validatePhoneNumber", ph) : ph \in Phones}
    \cup {UtilCall("cleanObject", obj) : obj \in Objects}
    \cup {UtilCall("parseCustomAttributes", input) : input \in AttributeInputs}
    \cup {UtilCall("parseProductItems", input) : input \in ProductInputs}
    \cup {UtilCall("attentiveApiRequest", arg) : arg \in SendArguments}

InitUtil ==
    /\ InitIdle
    /\ utilCall \in UtilCalls
    /\ utilResult = <<>>
    /\ delivery = NoCall
    /\ reply = <<>>
    /\ licensingNoticeLogged = FALSE
    /\ banners = 0
    /\ webhookData = EmptyObj
    /\ hook = NoCall

NextUtil ==
    \/ CallHandleApiError
    \/ CallFormatPhoneNumber
    \/ CallValidatePhoneNumber
    \/ CallCleanObject
    \/ CallParseCustomAttributes
    \/ CallParseProductItems
    \/ CallAttentiveApiRequest

SpecUtil == InitUtil /\ [][NextUtil]_vars

----------------------------------------------------------------------------
(* The trigger: AttentiveTrigger.webhook answers one inbound delivery.       *)
(* delivery holds the node's options, the headers and the body of the       *)
(* request; reply is <<>> until the handler has returned, then <<r>> for    *)
(* the IWebhookResponseData r it returned.                                   *)

SignatureHeader == "x-attentive-signature"
MissingSignature == [webhookResponse |-> [status |-> 401, body |-> "Missing signature"]]

\* the record emitted for a delivery
eventRecord(body) ==
    [event |-> IF Truthy(Get(body, "event")) THEN body["event"] ELSE Get(body, "type"),
     timestamp |-> IF Truthy(Get(body, "timestamp")) THEN body["timestamp"] ELSE JStr(Now),
     data |-> IF Truthy(Get(body, "data")) THEN body["data"] ELSE JObj(body),
     raw |-> JObj(body)]

\* a handler that lets every delivery through
webhook_open(options, headers, body) ==
    [workflowData |-> <<<<[json |-> eventRecord(body)]>>>>]

\* what webhook() returns for the options of the node and the headers and body
\* of the request
webhook(options, headers, body) ==
    IF Truthy(Get(options, "secret")) /\ ~Truthy(Get(headers, SignatureHeader))
    THEN MissingSignature
    ELSE [workflowData |-> <<<<[json |-> eventRecord(body)]>>>>]

\* a logLicensingNotice that writes the notice on every call
logLicensingNotice_everyCall ==
    /\ banners' = banners + 1
    /\ licensingNoticeLogged' = TRUE

\* logLicensingNotice(): the notice is written unless the flag is set
logLicensingNotice ==
    IF ~licensingNoticeLogged
    THEN /\ banners' = banners + 1
         /\ licensingNoticeLogged' = TRUE
    ELSE UNCHANGED <<banners, licensingNoticeLogged>>

Webhook ==
    /\ delivery # NoCall
    /\ reply = <<>>
    /\ logLicensingNotice
    /\ reply' = <<webhook(delivery.options, delivery.headers, delivery.body)>>
    /\ UNCHANGED <<nodeVars, utilVars, delivery, webhookData, hook>>

\* the deliveries: the secret absent, empty or set; the signature header absent,
\* empty or present, beside another header; bodies with and without each of the
\* fields the handler reads
SecretOptions == {EmptyObj, [secret |-> JStr("")], [secret |-> JStr("s3cret")]}
HeaderSets ==
    {sig @@ [host |-> JStr("n8n.example")] :
        sig \in {EmptyObj, SignatureHeader :> JStr(""), SignatureHeader :> JStr("abc"),
                 SignatureHeader :> JStr("Missing signature")}}
Bodies ==
    {ev @@ ty @@ ts @@ da :
        ev \in {EmptyObj, [event |-> JStr("message.sent")], [event |-> JStr("")]},
        ty \in {EmptyObj, [type |-> JStr("subscriber.created")]},
        ts \in {EmptyObj, [timestamp |-> JStr("2024-01-15T10:30:00Z")]},
        da \in {EmptyObj, [data |-> JObj([phone |-> JStr("+19148440001")])],
                [data |-> JObj(EmptyObj)], [data |-> JStr("")]}}
Deliveries ==
    {[options |-> o, headers |-> h, body |-> b] :
        o \in SecretOptions, h \in HeaderSets, b \in Bodies}

InitTrigger ==
    /\ InitIdle
    /\ utilCall = NoCall
    /\ utilResult = <<>>
    /\ delivery \in Deliveries
    /\ reply = <<>>
    /\ licensingNoticeLogged = FALSE
    /\ banners = 0
    /\ webhookData = EmptyObj
    /\ hook = NoCall

NextTrigger ==
    \/ Webhook

SpecTrigger == InitTrigger /\ [][NextTrigger]_vars

SecretConfigured == Truthy(Get(delivery.options, "secret"))
SignaturePresent == Truthy(Get(delivery.headers, SignatureHeader))

----------------------------------------------------------------------------
(* The process: one n8n process runs the node's execute and the trigger's    *)
(* webhookMethods (checkExists, create, delete) and webhook handler any      *)
(* number of times, in any order.  They share the module-level flag of       *)
(* logLicensingNotice; the hooks share the trigger's static data.  A hook is *)
(* one step: it awaits at most one request, whose outcome is the server's.   *)
(* hook records the last hook call: the static data it found, the request it *)
(* issued, how the request ended and what the hook returned or threw.        *)

MaxListed == 2

\* this.getNodeWebhookUrl('default')
webhookUrl == "https://n8n.example/webhook/attentive"

\* the webhooks of the upstream API: each has an id and a url
WebhookIds == {"wh-1", "wh-2"}
WebhookRecords ==
    {[id |-> JStr(w), url |-> JStr(u)] :
        w \in WebhookIds, u \in {webhookUrl, "https://other.example/hook"}}
\* the answers to GET /webhooks: up to MaxListed webhooks, or no webhooks field
Listings ==
    {EmptyObj} \cup
    {[webhooks |-> JArr([n \in DOMAIN l |-> JObj(l[n])])] :
        l \in UNION {[1..n -> WebhookRecords] : n \in 0..MaxListed}}

Without(obj, k) == [x \in Keys(obj) \ {k} |-> obj[x]]

\* how `await attentiveApiRequest.call(this, method, endpoint, body)` can end:
\* without a request (no API key), with one of the responses, or with the error
\* the transport throws for a failed request (no connection, or a 404)
transportOutcomes(method, endpoint, body, responses) ==
    LET sent == attentiveApiRequest(method, endpoint, body, EmptyObj)
    IN  IF sent.error # <<>>
        THEN {[requests |-> <<>>, error |-> sent.error, response |-> <<>>]}
        ELSE {[requests |-> sent.options, error |-> <<>>, response |-> <<r>>] :
                  r \in responses}
             \cup {[requests |-> sent.options, error |-> <<e>>, response |-> <<>>] :
                      e \in UNION {NodeApiErrors(RawError(st)) : st \in {0, 404}}}

\* the hook ends: the static data becomes data, the call is recorded
HookDone(fn, out, end) ==
    /\ webhookData' = end.data
    /\ hook' = [fn |-> fn, stored |-> webhookData, requests |-> out.requests,
                error |-> out.error, response |-> out.response, result |-> end.result]

\* a loop that keeps the last listed webhook with the node's url
firstMatch_last(webhooks) ==
    LET hits == {n \in 1..Len(webhooks) : Get(webhooks[n].obj, "url") = JStr(webhookUrl)}
    IN  IF hits = {} THEN <<>>
        ELSE <<webhooks[CHOOSE n \in hits : \A m \in hits : m <= n].obj>>

\* for (const webhook of webhooks) if (webhook.url === webhookUrl): the webhook
\* the loop stops at, if any
firstMatch(webhooks) ==
    LET hits == {n \in 1..Len(webhooks) : Get(webhooks[n].obj, "url") = JStr(webhookUrl)}
    IN  IF hits = {} THEN <<>>
        ELSE <<webhooks[CHOOSE n \in hits : \A m \in hits : n <= m].obj>>

\* checkExists: the request it awaits for the static data it finds
checkExistsRequest(data) ==
    IF Truthy(Get(data, "webhookId"))
    THEN transportOutcomes("GET", "/webhooks/" \o data["webhookId"].str, EmptyObj,
                           {[id |-> data["webhookId"], url |-> JStr(webhookUrl)]})
    ELSE transportOutcomes("GET", "/webhooks", EmptyObj, Listings)

\* checkExists after its request ended as out
checkExists(data, out) ==
    IF Truthy(Get(data, "webhookId"))
    THEN IF out.error = <<>>
         THEN [data |-> data, result |-> Returns(TRUE)]
         ELSE [data |-> Without(data, "webhookId"), result |-> Returns(FALSE)]
    ELSE IF out.error = <<>>
         THEN LET listed == Get(out.response[1], "webhooks")
                  webhooks == IF Truthy(listed) THEN listed.arr ELSE <<>>
                  found == firstMatch(webhooks)
              IN  IF found # <<>>
                  THEN [data |-> Put(data, "webhookId", Get(found[1], "id")),
                        result |-> Returns(TRUE)]
                  ELSE [data |-> data, result |-> Returns(FALSE)]
         ELSE [data |-> data, result |-> Returns(FALSE)]

CheckExists ==
    /\ logLicensingNotice
    /\ \E out \in checkExistsRequest(webhookData) :
        HookDone("checkExists", out, checkExists(webhookData, out))
    /\ UNCHANGED <<nodeVars, utilVars, delivery, reply>>

\* create: the body it registers and the request it awaits
createRequest(options) ==
    transportOutcomes("POST", "/webhooks",
                      [url |-> JStr(webhookUrl), events |-> JArr(<<JStr("subscriber.created")>>)]
                      @@ (IF Truthy(Get(options, "secret"))
                          THEN [secret |-> options["secret"]] ELSE <<>>),
                      {[id |-> JStr(w), url |-> JStr(webhookUrl)] : w \in WebhookIds})

\* create after its request ended as out
create(data, out) ==
    IF out.error = <<>>
    THEN [data |-> Put(data, "webhookId", Get(out.response[1], "id")),
          result |-> Returns(TRUE)]
    ELSE [data |-> data,
          result |-> Throws([name |-> "Error",
                             message |-> "Failed to create Attentive webhook: "
                                         \o out.error[1].message])]

Create ==
    /\ logLicensingNotice
    /\ \E options \in SecretOptions : \E out \in createRequest(options) :
        HookDone("create", out, create(webhookData, out))
    /\ UNCHANGED <<nodeVars, utilVars, delivery, reply>>

\* delete: the request it awaits, if it issues one
deleteRequest(data) ==
    IF Truthy(Get(data, "webhookId"))
    THEN transportOutcomes("DELETE", "/webhooks/" \o data["webhookId"].str, EmptyObj,
                           {EmptyObj})
    ELSE {[requests |-> <<>>, error |-> <<>>, response |-> <<>>]}

\* a delete that forgets the id only when the upstream webhook is gone
delete_keepOnFailure(data, out) ==
    [data |-> IF Truthy(Get(data, "webhookId")) /\ out.error = <<>>
              THEN Without(data, "webhookId") ELSE data,
     result |-> Returns(TRUE)]

\* delete after its request, if any, ended as out: a failure is only logged
delete(data, out) ==
    [data |-> IF Truthy(Get(data, "webhookId")) THEN Without(data, "webhookId") ELSE data,
     result |-> Returns(TRUE)]

\* delete does not call logLicensingNotice
Delete ==
    /\ \E out \in deleteRequest(webhookData) :
        HookDone("delete", out, delete(webhookData, out))
    /\ UNCHANGED <<nodeVars, utilVars, delivery, reply, licensingNoticeLogged, banners>>

\* the host hands the trigger one more delivery
Deliver ==
    /\ delivery = NoCall \/ reply # <<>>
    /\ delivery' \in {[options |-> o, headers |-> EmptyObj,
                       body |-> [event |-> JStr("message.sent")]] : o \in SecretOptions}
    /\ reply' = <<>>
    /\ UNCHANGED <<nodeVars, utilVars, licensingNoticeLogged, banners, webhookData, hook>>

\* the host calls execute: the lines before its loop
ExecuteEntry ==
    /\ pc \in {"idle", "done", "thrown"}
    /\ logLicensingNotice
    /\ \E its \in {<<>>, <<DefaultItem>>} :
        /\ items' = its
        /\ executed' = [k \in 1..Len(its) |-> 0]
        /\ settled' = [k \in 1..Len(its) |-> "no"]
    /\ pc' = "loop"
    /\ i' = 0
    /\ returnData' = <<>>
    /\ thrown' = <<>>
    /\ call' = NoCall
    /\ inflight' = {}
    /\ httpLog' = <<>>
    /\ outcomes' = <<>>
    /\ raised' = <<>>
    /\ UNCHANGED <<resource, operation, continueOnFail, credentials, server>>
    /\ UNCHANGED <<utilVars, delivery, reply, webhookData, hook>>

InitProcess ==
    /\ items = <<>>
    /\ resource = "segment"
    /\ operation = "get"
    /\ continueOnFail = FALSE
    /\ credentials \in {[apiKey |-> "key-1"], EmptyObj}
    /\ server = Honest(1, {500})
    /\ pc = "idle"
    /\ i = 0
    /\ returnData = <<>>
    /\ thrown = <<>>
    /\ call = NoCall
    /\ inflight = {}
    /\ httpLog = <<>>
    /\ outcomes = <<>>
    /\ executed = <<>>
    /\ settled = <<>>
    /\ raised = <<>>
    /\ utilCall = NoCall
    /\ utilResult = <<>>
    /\ delivery = NoCall
    /\ reply = <<>>
    /\ licensingNoticeLogged = FALSE
    /\ banners = 0
    /\ webhookData = EmptyObj
    /\ hook = NoCall

NextProcess ==
    \/ ExecuteEntry
    \/ ExecuteItem
    \/ RequestSucceeds
    \/ RequestFails
    \/ ReturnResults
    \/ CheckExists
    \/ Create
    \/ Delete
    \/ Deliver
    \/ Webhook

SpecProcess == InitProcess /\ [][NextProcess]_vars

\* a step in which execute, checkExists, create or webhook was called
LicensedCall ==
    \/ pc \in {"idle", "done", "thrown"} /\ pc' = "loop"
    \/ reply = <<>> /\ reply' # <<>>
    \/ hook' # hook /\ hook'.fn \in {"checkExists", "create"}

\* C28: the licensing notice is written at most once, and by the first call that
\* reaches logLicensingNotice, whichever of execute, checkExists, create and
\* webhook it is; the flag is set from then on and never reset.
C28_OneShot ==
    /\ [](banners <= 1)
    /\ [](licensingNoticeLogged <=> banners = 1)
    /\ [][licensingNoticeLogged => licensingNoticeLogged']_vars
    /\ [][LicensedCall => licensingNoticeLogged']_vars
    /\ [][banners' # banners => LicensedCall /\ banners = 0]_vars

C28_Witness ==
    /\ banners = 1
    /\ licensingNoticeLogged
    /\ pc = "done"
    /\ reply # <<>>
    /\ hook # NoCall
    /\ hook.fn = "create"

\* whether the static data holds a webhook id
IdStored(data) == Truthy(Get(data, "webhookId"))
DeleteRequests == {n \in 1..Len(hook.requests) : hook.requests[n].method = "DELETE"}

\* C29: a call of delete returns true and leaves no webhook id stored, whether its
\* DELETE request succeeded or failed (or could not be sent); it issues no request
\* when it found no id stored, and exactly one, a DELETE for the stored id, when
\* it found one and the request could be sent.
C29_Delete ==
    (hook # NoCall /\ hook.fn = "delete") =>
        /\ hook.result = Returns(TRUE)
        /\ ~IdStored(webhookData)
        /\ "webhookId" \notin Keys(webhookData)
        /\ Len(hook.requests) <= 1
        /\ DeleteRequests = DOMAIN hook.requests
        /\ ~IdStored(hook.stored) => hook.requests = <<>>
        /\ hook.requests # <<>> =>
               hook.requests[1].uri = BASE_URL \o "/webhooks/" \o hook.stored["webhookId"].str

\* a delete whose DELETE request failed
C29_Witness ==
    /\ hook # NoCall
    /\ hook.fn = "delete"
    /\ IdStored(hook.stored)
    /\ Len(hook.requests) = 1
    /\ hook.error # <<>>
    /\ hook.error[1].name = "NodeApiError"
    /\ hook.result = Returns(TRUE)

\* the webhooks a successful GET /webhooks of the last hook call listed
Listed ==
    IF Truthy(Get(hook.response[1], "webhooks")) THEN hook.response[1]["webhooks"].arr
    ELSE <<>>
Matches(w) == Get(w.obj, "url") = JStr(webhookUrl)
Failed == hook.error # <<>>

\* C30: after any sequence of checkExists, create and delete calls, the last call
\* satisfies: a checkExists that returned true left a webhook id stored; a
\* checkExists that found an id stored and whose lookup failed removed the id and
\* returned false; a checkExists that found none stored and listed a webhook with
\* the node's url stored the id of the first such webhook and returned true, and
\* otherwise (none listed, or the list request failed) returned false and left
\* the static data as it was; a create whose request failed threw and left the
\* static data as it was.
C30_Registration ==
    /\ (hook # NoCall /\ hook.fn = "checkExists") =>
        /\ hook.result \in {Returns(TRUE), Returns(FALSE)}
        /\ hook.result = Returns(TRUE) => IdStored(webhookData)
        /\ IdStored(hook.stored) /\ Failed =>
            /\ hook.result = Returns(FALSE)
            /\ "webhookId" \notin Keys(webhookData)
        /\ ~IdStored(hook.stored) /\ ~Failed =>
            /\ \A n \in 1..Len(Listed) :
                (Matches(Listed[n]) /\ \A m \in 1..(n - 1) : ~Matches(Listed[m])) =>
                    /\ hook.result = Returns(TRUE)
                    /\ webhookData = Put(hook.stored, "webhookId", Listed[n].obj["id"])
            /\ (\A n \in 1..Len(Listed) : ~Matches(Listed[n])) =>
                    /\ hook.result = Returns(FALSE)
                    /\ webhookData = hook.stored
        /\ ~IdStored(hook.stored) /\ Failed =>
            /\ hook.result = Returns(FALSE)
            /\ webhookData = hook.stored
    /\ (hook # NoCall /\ hook.fn = "create" /\ Failed) =>
        /\ DOMAIN hook.result[1] = {"throws"}
        /\ webhookData = hook.stored

\* a checkExists that found no id stored and two listed webhooks with the node's
\* url and different ids
C30_Witness ==
    /\ hook # NoCall
    /\ hook.fn = "checkExists"
    /\ ~IdStored(hook.stored)
    /\ ~Failed
    /\ Len(Listed) = 2
    /\ Matches(Listed[1])
    /\ Matches(Listed[2])
    /\ Listed[1].obj["id"] # Listed[2].obj["id"]
    /\ hook.result = Returns(TRUE)
    /\ webhookData["webhookId"] = Listed[1].obj["id"]

====
